---- MODULE Spec2Model ----
(***************************************************************************)
(* Model of fps-monitor-overlay:                                           *)
(*   RingBuffer<T, N>   src/src/core/ring_buffer.h                         *)
(*   FpsCalculator      fps_calculator.cpp / fps_calculator.h              *)
(*   StatsTracker       stats_tracker.cpp, src/src/core/stats_tracker.h    *)
(*   DropDetector       src/src/core/drop_detector.cpp / drop_detector.h   *)
(*   FPSMonitorApp      main.cpp (the main loop and its message callback)  *)
(*   WindowManager      window_manager.cpp, src/src/overlay                *)
(*   Logger             src/src/utils/logger.cpp / logger.h                *)
(*                                                                         *)
(* A C++ double is modelled by an exact rational <<num, den>> in lowest    *)
(* terms with den > 0; SpecFloat rounds every operation to SignificandBits *)
(* significant bits instead.  std::chrono::steady_clock is the variable    *)
(* now, counted in ticks of 1/TicksPerMs millisecond.                      *)
(*                                                                         *)
(* Each component has its own specification (SpecRing, SpecConc, SpecFps,  *)
(* SpecStats, SpecFloat, SpecDrop, SpecLog, SpecApp, SpecWin); a           *)
(* specification leaves the variables of the other components at their    *)
(* constructed values.                                                     *)
(***************************************************************************)
EXTENDS Integers, Sequences, FiniteSets, TLC

VARIABLES
    m_buffer,           \* RingBuffer::m_buffer, a function 0..N-1 -> T
    m_head,             \* RingBuffer::m_head, index of the next write
    m_size,             \* RingBuffer::m_size
    m_currentFPS,       \* FpsCalculator::m_currentFPS
    m_averageFPS,       \* FpsCalculator::m_averageFPS
    m_historySize,      \* FpsCalculator::m_historySize
    m_stats,            \* StatsTracker::m_stats
    m_lastUpdate,       \* StatsTracker::m_lastUpdate, a steady_clock time in ticks
    m_updateInterval,   \* StatsTracker::m_updateInterval, in milliseconds
    m_thresholdPercent, \* DropDetector::m_thresholdPercent
    m_drops,            \* DropDetector::m_drops
    m_callback,         \* DropDetector::m_callback: "none" when empty, else which function
    m_lastDrop,         \* DropDetector::m_lastDrop, a steady_clock time in ticks
    now,                \* std::chrono::steady_clock::now(), in ticks
    m_mutex,            \* RingBuffer::m_mutex: the thread holding it, or Free
    pc,                 \* per thread: the statement of the RingBuffer method it is at
    loc,                \* per thread: the locals of the method it is in
    completed,          \* history: the number of push() calls that have returned
    pushLog,            \* history: the values pushed since construction or the last clear()
    restartedAt,        \* history: when the StatsTracker was constructed, last reset or
                        \*          last recomputed, whichever is latest
    recomputedAt,       \* history: when calculateStats last ran, -1 before the first run
    recordedAt,         \* history: when a Drop was last recorded, -1 before the first
    breaches,           \* history: the last update() call that satisfied checkForDrop
    twin,               \* history: an FpsCalculator constructed when this one was constructed
                        \*          or last reset, and given the same update() calls since
    app,                \* FPSMonitorApp: the statement run() is at, its locals, the
                        \*          Timer's m_lastTime, and what this iteration passed on
    win,                \* WindowManager's members (with FPSMonitorApp::m_visible, which
                        \*          the tray icon's toggle callback keeps)
    invoked,            \* the invocations of m_callback made by the last update() call:
                        \*          the Drop passed and the members the callback could read
    logger,             \* Logger's members (m_mutex: the thread holding it, or "none")
                        \*          and, per thread, the statement of the Logger method
                        \*          it is at
    call                \* history: the last completed call, its arguments and its outcome

ringVars == <<m_buffer, m_head, m_size>>
concVars == <<m_mutex, pc, loc, completed>>
fpsVars == <<m_currentFPS, m_averageFPS, m_historySize>>
statsVars == <<m_stats, m_lastUpdate, m_updateInterval>>
dropVars == <<m_thresholdPercent, m_drops, m_callback, m_lastDrop>>
histVars == <<restartedAt, recomputedAt, recordedAt, breaches>>
\* What a step of each specification leaves alone.
outsideRing == <<logger, win, app, twin, m_currentFPS, m_averageFPS, m_historySize, m_stats, m_lastUpdate,
                 m_updateInterval, m_thresholdPercent, m_drops, m_callback, m_lastDrop,
                 now, m_mutex, pc, loc, completed,
                 restartedAt, recomputedAt, recordedAt, breaches, invoked>>
outsideConc == <<logger, win, app, twin, m_currentFPS, m_averageFPS, m_historySize, m_stats, m_lastUpdate,
                 m_updateInterval, m_thresholdPercent, m_drops, m_callback, m_lastDrop,
                 now, restartedAt, recomputedAt, recordedAt, breaches, invoked, call>>
outsideFps == <<logger, win, app, m_stats, m_lastUpdate, m_updateInterval,
                m_thresholdPercent, m_drops, m_callback, m_lastDrop,
                now, m_mutex, pc, loc, completed, pushLog,
                restartedAt, recomputedAt, recordedAt, breaches, invoked>>
outsideStats == <<logger, win, app, twin, m_buffer, m_head, m_size, m_currentFPS, m_averageFPS, m_historySize,
                  m_thresholdPercent, m_drops, m_callback, m_lastDrop,
                  m_mutex, pc, loc, completed, pushLog, recordedAt, breaches, invoked>>
outsideDrop == <<logger, win, app, twin, m_buffer, m_head, m_size, m_currentFPS, m_averageFPS, m_historySize,
                 m_stats, m_lastUpdate, m_updateInterval,
                 m_mutex, pc, loc, completed, pushLog, restartedAt, recomputedAt>>
vars == <<logger, win, app, twin, m_buffer, m_head, m_size, m_currentFPS, m_averageFPS, m_historySize,
          m_stats, m_lastUpdate, m_updateInterval,
          m_thresholdPercent, m_drops, m_callback, m_lastDrop, now,
          m_mutex, pc, loc, completed, pushLog,
          restartedAt, recomputedAt, recordedAt, breaches, invoked, call>>

----------------------------------------------------------------------------
(* Bounds of the model *)

\* RingBuffer's template parameter N (FpsCalculator instantiates it with 600).
N == 3
\* Pushes explored between two clear() calls.
MaxPushes == 5
\* Reader threads beside the one producer thread.
NumReaders == 2
\* Pushes the producer thread makes while readers run.
MaxConcPushes == 4
\* Resolution of the model's steady_clock: ticks per millisecond.
TicksPerMs == 2
\* Clock ticks explored by SpecStats.
MaxStatsTicks == 10
\* Iterations of the application's main loop explored by SpecApp.
MaxIterations == 4
\* Clock steps of DropStepMs explored by SpecDrop.
MaxDropSteps == 6
\* Lines that bring the log file to Logger::MAX_FILE_SIZE (5 MB in logger.h).
MaxLogLines == 2
\* The significant bits a double carries: 53 in binary64, scaled down.
SignificandBits == 4

\* DropDetector::MAX_DROP_HISTORY, 100 in drop_detector.h, scaled down.
MAX_DROP_HISTORY == 2

----------------------------------------------------------------------------
(* Exact rationals standing for double *)

GCD[a \in Nat, b \in Nat] == IF b = 0 THEN a ELSE GCD[b, a % b]

Abs(x) == IF x < 0 THEN -x ELSE x

Min(a, b) == IF a < b THEN a ELSE b

\* The last n elements of s.
LastN(s, n) == SubSeq(s, Len(s) - n + 1, Len(s))

\* The rational n/d (d # 0) in lowest terms with a positive denominator.
Rat(n, d) ==
    LET g == GCD[Abs(n), Abs(d)]
        s == IF d < 0 THEN -1 ELSE 1
    IN  <<(s * n) \div g, (s * d) \div g>>

R(n) == <<n, 1>>
Zero == <<0, 1>>

RAdd(x, y) == Rat(x[1] * y[2] + y[1] * x[2], x[2] * y[2])
RSub(x, y) == Rat(x[1] * y[2] - y[1] * x[2], x[2] * y[2])
RMul(x, y) == Rat(x[1] * y[1], x[2] * y[2])
RDiv(x, y) == Rat(x[1] * y[2], x[2] * y[1])
RLe(x, y)  == x[1] * y[2] <= y[1] * x[2]
RLt(x, y)  == x[1] * y[2] < y[1] * x[2]
RMin(x, y) == IF RLt(y, x) THEN y ELSE x
RMax(x, y) == IF RLt(x, y) THEN y ELSE x

\* The sum of a sequence of rationals, as std::accumulate(begin, end, 0.0) gives
\* it.  Exact addition is associative, so the terms are grouped in halves, which
\* keeps the evaluation of a long sequence shallow.
SumSeq(s) ==
    LET sum[range \in (1..(Len(s) + 1)) \X (0..Len(s))] ==
            LET lo == range[1]
                hi == range[2]
                mid == (lo + hi) \div 2
            IN  IF hi < lo THEN Zero
                ELSE IF hi = lo THEN s[lo]
                ELSE RAdd(sum[<<lo, mid>>], sum[<<mid + 1, hi>>])
    IN  sum[<<1, Len(s)>>]

----------------------------------------------------------------------------
(* RingBuffer<T, N> *)

\* RingBuffer(): m_head(0), m_size(0), m_buffer.resize(N) value-initialises the slots.
RingConstructed ==
    /\ m_buffer = [i \in 0..(N - 1) |-> Zero]
    /\ m_head = 0
    /\ m_size = 0

\* Mutant of SlotOf: the oldest element taken to sit at head whatever size is.
SlotIgnoresSize(head, size, index) == (head + index) % N

\* actualIndex = (m_head + N - m_size + index) % N, the slot of chronological
\* position index in a buffer with the given head and size.
SlotOf(head, size, index) == (head + N - size + index) % N

ActualIndex(index) == SlotOf(m_head, m_size, index)

\* The loop of getAll() over a buffer r = [buffer, head, size]: its size elements,
\* oldest first.
GetAllOf(r) == [i \in 1..r.size |-> r.buffer[SlotOf(r.head, r.size, i - 1)]]

\* getAll()
GetAll == GetAllOf([buffer |-> m_buffer, head |-> m_head, size |-> m_size])

\* size()
Size == m_size

\* capacity()
Capacity == N

\* isEmpty()
IsEmpty == m_size = 0

\* The members after push(value).
AfterPush(value) ==
    [buffer |-> [m_buffer EXCEPT ![m_head] = value],
     head   |-> (m_head + 1) % N,
     size   |-> IF m_size < N THEN m_size + 1 ELSE m_size]

\* The state change of push(value).
RingPush(value) ==
    /\ m_buffer' = AfterPush(value).buffer
    /\ m_head' = AfterPush(value).head
    /\ m_size' = AfterPush(value).size

\* Mutant of RingClear: the head is rewound but the size is kept.
RingClearKeepsSize ==
    /\ m_head' = 0
    /\ UNCHANGED <<m_size, m_buffer>>

\* The state change of clear().
RingClear ==
    /\ m_head' = 0
    /\ m_size' = 0
    /\ UNCHANGED m_buffer

\* Mutant of Get: an index past the end is clamped to the newest element.
GetClamped(index) ==
    IF m_size = 0
    THEN [threw |-> "out_of_range", value |-> Zero]
    ELSE [threw |-> "none", value |-> m_buffer[ActualIndex(Min(index, m_size - 1))]]

\* get(index): throws std::out_of_range when index >= m_size, else the element.
Get(index) ==
    IF index >= m_size
    THEN [threw |-> "out_of_range", value |-> Zero]
    ELSE [threw |-> "none", value |-> m_buffer[ActualIndex(index)]]

\* latest(): throws std::runtime_error when empty, else the newest element.
Latest ==
    IF m_size = 0
    THEN [threw |-> "runtime_error", value |-> Zero]
    ELSE [threw |-> "none", value |-> m_buffer[(m_head + N - 1) % N]]

----------------------------------------------------------------------------
(* FpsCalculator: owns a RingBuffer<double, MAX_HISTORY> *)

\* static constexpr size_t MAX_HISTORY: the capacity the buffer is instantiated with.
MAX_HISTORY == N

\* static constexpr double MAX_FPS = 1000.0
MAX_FPS == R(1000)

\* FpsCalculator(historySize); the buffer is built by RingConstructed.
FpsConstructed(historySize) ==
    /\ m_currentFPS = Zero
    /\ m_averageFPS = Zero
    /\ m_historySize = Min(historySize, MAX_HISTORY)

\* Mutant of CalculateAverage: the sum is divided by the capacity, not the sample count.
CalculateAverageOverCapacity(samples) ==
    IF samples = <<>> THEN Zero ELSE RDiv(SumSeq(samples), R(N))

\* Mutant of CalculateAverage: the sum is returned without the division.
CalculateAverageReturnsSum(samples) ==
    IF samples = <<>> THEN Zero ELSE SumSeq(samples)

\* calculateAverage() on samples = m_samples->getAll(): 0.0 for no samples, else
\* accumulate(samples) / samples.size().
CalculateAverage(samples) ==
    IF samples = <<>> THEN Zero ELSE RDiv(SumSeq(samples), R(Len(samples)))

\* Mutant of FpsUpdate: only a negative deltaTime is skipped.  1.0 / 0.0 is +infinity,
\* which RDiv gives as <<1, 0>> and the clamp brings down to MAX_FPS.
FpsUpdateSkipsNegativeOnly(deltaTime) ==
    IF RLt(deltaTime, Zero)
    THEN UNCHANGED <<ringVars, fpsVars>>
    ELSE LET clamped == RMax(Zero, RMin(RDiv(R(1), deltaTime), MAX_FPS))
         IN  /\ m_currentFPS' = clamped
             /\ RingPush(clamped)
             /\ m_averageFPS' = CalculateAverage(GetAllOf(AfterPush(clamped)))
             /\ UNCHANGED m_historySize

\* Mutant of FpsUpdate: the instantaneous rate is not clamped to MAX_FPS.
FpsUpdateUnclamped(deltaTime) ==
    IF RLe(deltaTime, Zero)
    THEN UNCHANGED <<ringVars, fpsVars>>
    ELSE LET fps == RMax(Zero, RDiv(R(1), deltaTime))
         IN  /\ m_currentFPS' = fps
             /\ RingPush(fps)
             /\ m_averageFPS' = CalculateAverage(GetAllOf(AfterPush(fps)))
             /\ UNCHANGED m_historySize

\* update(deltaTime)
FpsUpdate(deltaTime) ==
    IF RLe(deltaTime, Zero)
    THEN UNCHANGED <<ringVars, fpsVars>>
    ELSE LET clamped == RMax(Zero, RMin(RDiv(R(1), deltaTime), MAX_FPS))
         IN  /\ m_currentFPS' = clamped
             /\ RingPush(clamped)
             /\ m_averageFPS' = CalculateAverage(GetAllOf(AfterPush(clamped)))
             /\ UNCHANGED m_historySize

\* Mutant of FpsReset: the buffer is cleared but the two rates are kept.
FpsResetKeepsRates ==
    /\ RingClear
    /\ UNCHANGED fpsVars

\* reset()
FpsReset ==
    /\ RingClear
    /\ m_currentFPS' = Zero
    /\ m_averageFPS' = Zero
    /\ UNCHANGED m_historySize

\* A newly constructed FpsCalculator as a value: the members of its buffer and its
\* two rates.
FreshCalculator ==
    [buffer |-> [i \in 0..(N - 1) |-> Zero], head |-> 0, size |-> 0,
     currentFPS |-> Zero, averageFPS |-> Zero]

\* update(deltaTime) applied to the calculator c given as a value.
UpdateOn(c, deltaTime) ==
    IF RLe(deltaTime, Zero) THEN c
    ELSE LET clamped == RMax(Zero, RMin(RDiv(R(1), deltaTime), MAX_FPS))
             pushed == [c EXCEPT !.buffer = [c.buffer EXCEPT ![c.head] = clamped],
                                 !.head = (c.head + 1) % N,
                                 !.size = IF c.size < N THEN c.size + 1 ELSE c.size]
         IN  [pushed EXCEPT !.currentFPS = clamped,
                            !.averageFPS = CalculateAverage(GetAllOf(pushed))]

\* getSamples()
GetSamples == GetAll

\* getSampleCount()
GetSampleCount == Size

----------------------------------------------------------------------------
(* StatsTracker *)

ZeroStats ==
    [average |-> Zero, min |-> Zero, max |-> Zero,
     percentile01 |-> Zero, percentile1 |-> Zero]

\* std::floor and std::ceil of a rational.
RFloor(x) == x[1] \div x[2]
RCeil(x) == -((-x[1]) \div x[2])

\* StatsTracker(updateIntervalMs)
StatsConstructed(updateIntervalMs) ==
    /\ m_stats = ZeroStats
    /\ m_lastUpdate = now
    /\ m_updateInterval = updateIntervalMs

\* Mutant of CalculatePercentile: the index is counted from the top of the list.
CalculatePercentileFromTop(sortedSamples, percentile) ==
    LET n == Len(sortedSamples)
        index == RMul(RSub(R(1), percentile), R(n - 1))
        lowerIndex == Min(RFloor(index), n - 1)
        upperIndex == Min(RCeil(index), n - 1)
        weight == RSub(index, R(lowerIndex))
    IN  IF n = 0 THEN Zero
        ELSE IF n = 1 THEN sortedSamples[1]
        ELSE IF lowerIndex = upperIndex THEN sortedSamples[lowerIndex + 1]
        ELSE RAdd(RMul(sortedSamples[lowerIndex + 1], RSub(R(1), weight)),
                  RMul(sortedSamples[upperIndex + 1], weight))

\* Mutant of CalculatePercentile: the lower neighbour is returned, not interpolated.
CalculatePercentileNearestRank(sortedSamples, percentile) ==
    LET n == Len(sortedSamples)
        lowerIndex == Min(RFloor(RMul(percentile, R(n - 1))), n - 1)
    IN  IF n = 0 THEN Zero ELSE sortedSamples[lowerIndex + 1]

\* calculatePercentile(sortedSamples, percentile)
CalculatePercentile(sortedSamples, percentile) ==
    LET n == Len(sortedSamples)
        index == RMul(percentile, R(n - 1))
        lowerIndex == Min(RFloor(index), n - 1)
        upperIndex == Min(RCeil(index), n - 1)
        weight == RSub(index, R(lowerIndex))
    IN  IF n = 0 THEN Zero
        ELSE IF n = 1 THEN sortedSamples[1]
        ELSE IF lowerIndex = upperIndex THEN sortedSamples[lowerIndex + 1]
        ELSE RAdd(RMul(sortedSamples[lowerIndex + 1], RSub(R(1), weight)),
                  RMul(sortedSamples[upperIndex + 1], weight))

\* Mutant of CalculateStats: an empty sample list leaves the statistics as they were.
CalculateStatsSkipsEmpty(samples) ==
    IF samples = <<>> THEN m_stats
    ELSE LET sorted == SortSeq(samples, RLt)
         IN  [average |-> RDiv(SumSeq(sorted), R(Len(sorted))),
              min |-> sorted[1],
              max |-> sorted[Len(sorted)],
              percentile01 |-> CalculatePercentile(sorted, Rat(1, 1000)),
              percentile1 |-> CalculatePercentile(sorted, Rat(1, 100))]

\* calculateStats(samples): the value m_stats is left with.
CalculateStats(samples) ==
    IF samples = <<>> THEN ZeroStats
    ELSE LET sorted == SortSeq(samples, RLt)
         IN  [average |-> RDiv(SumSeq(sorted), R(Len(sorted))),
              min |-> sorted[1],
              max |-> sorted[Len(sorted)],
              percentile01 |-> CalculatePercentile(sorted, Rat(1, 1000)),
              percentile1 |-> CalculatePercentile(sorted, Rat(1, 100))]

\* duration_cast<milliseconds>(now - m_lastUpdate): whole milliseconds, truncated.
ElapsedMs == (now - m_lastUpdate) \div TicksPerMs

\* Mutant of IntervalElapsed: the interval must be exceeded strictly.
IntervalExceeded == ElapsedMs > m_updateInterval

\* The test of update(): elapsed >= m_updateInterval.
IntervalElapsed == ElapsedMs >= m_updateInterval

\* update(samples)
StatsUpdate(samples) ==
    IF IntervalElapsed
    THEN /\ m_stats' = CalculateStats(samples)
         /\ m_lastUpdate' = now
         /\ UNCHANGED m_updateInterval
    ELSE UNCHANGED statsVars

\* Mutant of StatsReset: the statistics are zeroed but the throttle clock runs on.
StatsResetKeepsClock ==
    /\ m_stats' = ZeroStats
    /\ UNCHANGED <<m_lastUpdate, m_updateInterval>>

\* reset()
StatsReset ==
    /\ m_stats' = ZeroStats
    /\ m_lastUpdate' = now
    /\ UNCHANGED m_updateInterval

----------------------------------------------------------------------------
(* StatsTracker in rounded arithmetic: every operation on double yields the
   representable value nearest the exact result, ties to the even significand.
   The exponent range of double is far wider than the rates, so it is left
   unbounded. *)

Pow2[k \in Nat] == IF k = 0 THEN 1 ELSE 2 * Pow2[k - 1]

\* x * 2^e
Scale(x, e) == IF e >= 0 THEN RMul(x, R(Pow2[e])) ELSE RDiv(x, R(Pow2[-e]))

\* For x > 0, the exponent e that puts x / 2^e in [2^(p-1), 2^p), p the
\* significant bits.
RECURSIVE ExponentOf(_)
ExponentOf(x) ==
    IF RLe(R(Pow2[SignificandBits]), x) THEN ExponentOf(RDiv(x, R(2))) + 1
    ELSE IF RLt(x, R(Pow2[SignificandBits - 1])) THEN ExponentOf(RMul(x, R(2))) - 1
    ELSE 0

\* The double nearest x.
RoundToNearest(x) ==
    IF x[1] = 0 THEN Zero
    ELSE LET magnitude == <<Abs(x[1]), x[2]>>
             e == ExponentOf(magnitude)
             scaled == Scale(magnitude, -e)
             q == RFloor(scaled)
             rest == RSub(scaled, R(q))
             significand == IF \/ RLt(Rat(1, 2), rest)
                               \/ rest = Rat(1, 2) /\ q % 2 = 1
                            THEN q + 1 ELSE q
             rounded == Scale(R(significand), e)
         IN  IF x[1] < 0 THEN <<-rounded[1], rounded[2]>> ELSE rounded

DAdd(x, y) == RoundToNearest(RAdd(x, y))
DSub(x, y) == RoundToNearest(RSub(x, y))
DMul(x, y) == RoundToNearest(RMul(x, y))
DDiv(x, y) == RoundToNearest(RDiv(x, y))

\* std::accumulate(begin, end, 0.0): the terms are added front to back, each
\* partial sum rounded.
Accumulate(s) ==
    LET acc[i \in 0..Len(s)] == IF i = 0 THEN Zero ELSE DAdd(acc[i - 1], s[i])
    IN  acc[Len(s)]

\* calculatePercentile(sortedSamples, percentile); the literals 0.001 and 0.01
\* are themselves the doubles nearest those fractions.
CalculatePercentileRounded(sortedSamples, percentile) ==
    LET n == Len(sortedSamples)
        index == DMul(RoundToNearest(percentile), R(n - 1))
        lowerIndex == Min(RFloor(index), n - 1)
        upperIndex == Min(RCeil(index), n - 1)
        weight == DSub(index, R(lowerIndex))
    IN  IF n = 0 THEN Zero
        ELSE IF n = 1 THEN sortedSamples[1]
        ELSE IF lowerIndex = upperIndex THEN sortedSamples[lowerIndex + 1]
        ELSE DAdd(DMul(sortedSamples[lowerIndex + 1], DSub(R(1), weight)),
                  DMul(sortedSamples[upperIndex + 1], weight))

\* calculateStats(samples): the value m_stats is left with.
CalculateStatsRounded(samples) ==
    IF samples = <<>> THEN ZeroStats
    ELSE LET sorted == SortSeq(samples, RLt)
         IN  [average |-> DDiv(Accumulate(sorted), R(Len(sorted))),
              min |-> sorted[1],
              max |-> sorted[Len(sorted)],
              percentile01 |-> CalculatePercentileRounded(sorted, Rat(1, 1000)),
              percentile1 |-> CalculatePercentileRounded(sorted, Rat(1, 100))]

\* update(samples)
StatsUpdateRounded(samples) ==
    IF IntervalElapsed
    THEN /\ m_stats' = CalculateStatsRounded(samples)
         /\ m_lastUpdate' = now
         /\ UNCHANGED m_updateInterval
    ELSE UNCHANGED statsVars

----------------------------------------------------------------------------
(* DropDetector *)

\* static constexpr double DEBOUNCE_SECONDS = 0.5
DEBOUNCE_SECONDS == Rat(1, 2)

\* DropDetector(thresholdPercent): the argument is stored as given.
DropConstructed(thresholdPercent) ==
    /\ m_thresholdPercent = thresholdPercent
    /\ m_drops = <<>>
    /\ m_callback = "none"
    /\ m_lastDrop = now

\* Mutant of CheckForDrop: the drop must exceed the threshold strictly.
CheckForDropStrict(currentFPS, averageFPS) ==
    IF RLt(averageFPS, R(10)) THEN FALSE
    ELSE RLt(m_thresholdPercent,
             RMul(RDiv(RSub(averageFPS, currentFPS), averageFPS), R(100)))

\* checkForDrop(currentFPS, averageFPS)
CheckForDrop(currentFPS, averageFPS) ==
    IF RLt(averageFPS, R(10)) THEN FALSE
    ELSE LET dropPercent == RMul(RDiv(RSub(averageFPS, currentFPS), averageFPS), R(100))
         IN  RLe(m_thresholdPercent, dropPercent)

\* duration<double>(later - earlier).count(): seconds, not truncated.
SecondsBetween(earlier, later) == Rat(later - earlier, 1000 * TicksPerMs)

\* elapsed = duration<double>(now - m_lastDrop).count()
ElapsedSeconds == SecondsBetween(m_lastDrop, now)

\* The two tests of update(): a drop, and the debounce time passed since m_lastDrop.
RecordsDrop(currentFPS, averageFPS) ==
    /\ CheckForDrop(currentFPS, averageFPS)
    /\ RLe(DEBOUNCE_SECONDS, ElapsedSeconds)

\* The Drop that update() builds.
NewDrop(currentFPS, averageFPS) ==
    [timestamp |-> now,
     averageFPS |-> averageFPS,
     currentFPS |-> currentFPS,
     magnitude |-> RDiv(RSub(averageFPS, currentFPS), averageFPS)]

\* if (m_callback) m_callback(drop), run at a point of update() where the members
\* are drops and lastDrop: the invocations it makes.  The callback runs inside
\* update(), on the thread that called it; the one the application registers only
\* logs, so it changes no state of the detector.
InvokeCallback(drop, drops, lastDrop) ==
    IF m_callback # "none"
    THEN <<[callback |-> m_callback, drop |-> drop, drops |-> drops, lastDrop |-> lastDrop]>>
    ELSE <<>>

\* update(currentFPS, averageFPS) run at a point where the members are drops and
\* lastDrop, as it runs when a callback calls it: the members and the callback
\* invocations it leaves.  A "reenter" callback calls update() again with the
\* drop it was given, on the same thread and at the same clock reading; the
\* nested call sees m_lastDrop already set.
RECURSIVE UpdateFrom(_, _, _, _)
UpdateFrom(drops, lastDrop, currentFPS, averageFPS) ==
    IF /\ CheckForDrop(currentFPS, averageFPS)
       /\ RLe(DEBOUNCE_SECONDS, SecondsBetween(lastDrop, now))
    THEN LET drop == NewDrop(currentFPS, averageFPS)
             pushed == Append(drops, drop)
             trimmed == IF Len(pushed) > MAX_DROP_HISTORY THEN Tail(pushed) ELSE pushed
             after == IF m_callback = "reenter"
                      THEN UpdateFrom(trimmed, now, drop.currentFPS, drop.averageFPS)
                      ELSE [drops |-> trimmed, lastDrop |-> now, invoked |-> <<>>]
         IN  [drops |-> after.drops, lastDrop |-> after.lastDrop,
              invoked |-> InvokeCallback(drop, trimmed, now) \o after.invoked]
    ELSE [drops |-> drops, lastDrop |-> lastDrop, invoked |-> <<>>]

\* Mutant of DropUpdate: a suppressed breach restarts the debounce time.
DropUpdateRestartsDebounce(currentFPS, averageFPS) ==
    IF RecordsDrop(currentFPS, averageFPS)
    THEN LET after == UpdateFrom(m_drops, m_lastDrop, currentFPS, averageFPS)
         IN  /\ m_drops' = after.drops
             /\ m_lastDrop' = after.lastDrop
             /\ invoked' = after.invoked
             /\ UNCHANGED <<m_thresholdPercent, m_callback>>
    ELSE /\ m_lastDrop' = IF CheckForDrop(currentFPS, averageFPS) THEN now ELSE m_lastDrop
         /\ UNCHANGED <<m_thresholdPercent, m_drops, m_callback>>
         /\ invoked' = <<>>

\* Mutant of DropUpdate: m_lastDrop is assigned after the callback has returned.
DropUpdateStampsAfterCallback(currentFPS, averageFPS) ==
    IF RecordsDrop(currentFPS, averageFPS)
    THEN LET drop == NewDrop(currentFPS, averageFPS)
             pushed == Append(m_drops, drop)
             trimmed == IF Len(pushed) > MAX_DROP_HISTORY THEN Tail(pushed) ELSE pushed
             after == IF m_callback = "reenter"
                      THEN UpdateFrom(trimmed, m_lastDrop, currentFPS, averageFPS)
                      ELSE [drops |-> trimmed, lastDrop |-> now, invoked |-> <<>>]
         IN  /\ m_drops' = after.drops
             /\ m_lastDrop' = now
             /\ invoked' = InvokeCallback(drop, trimmed, m_lastDrop) \o after.invoked
             /\ UNCHANGED <<m_thresholdPercent, m_callback>>
    ELSE /\ UNCHANGED dropVars
         /\ invoked' = <<>>

\* Mutant of DropUpdate: the history is trimmed at the back, dropping the new event.
DropUpdateTrimsNewest(currentFPS, averageFPS) ==
    IF RecordsDrop(currentFPS, averageFPS)
    THEN LET drop == NewDrop(currentFPS, averageFPS)
             pushed == Append(m_drops, drop)
             trimmed == IF Len(pushed) > MAX_DROP_HISTORY
                        THEN SubSeq(pushed, 1, Len(pushed) - 1) ELSE pushed
         IN  /\ m_drops' = trimmed
             /\ m_lastDrop' = now
             /\ invoked' = InvokeCallback(drop, trimmed, now)
             /\ UNCHANGED <<m_thresholdPercent, m_callback>>
    ELSE /\ UNCHANGED dropVars
         /\ invoked' = <<>>

\* Mutant of DropUpdate: the callback is invoked before the event is stored.
DropUpdateCallsBackFirst(currentFPS, averageFPS) ==
    IF RecordsDrop(currentFPS, averageFPS)
    THEN LET drop == NewDrop(currentFPS, averageFPS)
             pushed == Append(m_drops, drop)
         IN  /\ invoked' = InvokeCallback(drop, m_drops, m_lastDrop)
             /\ m_drops' = IF Len(pushed) > MAX_DROP_HISTORY THEN Tail(pushed) ELSE pushed
             /\ m_lastDrop' = now
             /\ UNCHANGED <<m_thresholdPercent, m_callback>>
    ELSE /\ UNCHANGED dropVars
         /\ invoked' = <<>>

\* update(currentFPS, averageFPS): whatever the callback did to the members is
\* what update() leaves, since nothing follows the callback.
DropUpdate(currentFPS, averageFPS) ==
    IF RecordsDrop(currentFPS, averageFPS)
    THEN LET after == UpdateFrom(m_drops, m_lastDrop, currentFPS, averageFPS)
         IN  /\ m_drops' = after.drops
             /\ m_lastDrop' = after.lastDrop
             /\ invoked' = after.invoked
             /\ UNCHANGED <<m_thresholdPercent, m_callback>>
    ELSE /\ UNCHANGED dropVars
         /\ invoked' = <<>>

\* Mutant of GetRecentDrops: an event exactly seconds old is left out.
GetRecentDropsStrict(seconds) ==
    SelectSeq(m_drops, LAMBDA drop : RLt(SecondsBetween(drop.timestamp, now), seconds))

\* getRecentDrops(seconds): the events with now - timestamp <= seconds, in the
\* order of m_drops.
GetRecentDrops(seconds) ==
    SelectSeq(m_drops, LAMBDA drop : RLe(SecondsBetween(drop.timestamp, now), seconds))

\* Mutant of SetThreshold: the argument is stored as given.
SetThresholdUnclamped(thresholdPercent) ==
    /\ m_thresholdPercent' = thresholdPercent
    /\ UNCHANGED <<m_drops, m_callback, m_lastDrop>>

\* setThreshold(thresholdPercent)
SetThreshold(thresholdPercent) ==
    /\ m_thresholdPercent' = RMax(R(5), RMin(thresholdPercent, R(50)))
    /\ UNCHANGED <<m_drops, m_callback, m_lastDrop>>

\* setDropCallback(callback)
SetDropCallback(callback) ==
    /\ m_callback' = callback
    /\ UNCHANGED <<m_thresholdPercent, m_drops, m_lastDrop>>

\* Mutant of ClearHistory: the last-drop time is cleared along with the history.
ClearHistoryForgetsLastDrop ==
    /\ m_drops' = <<>>
    /\ m_lastDrop' = now - 1000 * TicksPerMs
    /\ UNCHANGED <<m_thresholdPercent, m_callback>>

\* clearHistory()
ClearHistory ==
    /\ m_drops' = <<>>
    /\ UNCHANGED <<m_thresholdPercent, m_callback, m_lastDrop>>

----------------------------------------------------------------------------
(* What the specifications share *)

\* Config's defaults: stats_update_ms = 500 and drop_threshold_percent = 15.0.
DefaultStatsMs == 500
DefaultThreshold == R(15)

\* WindowManager(): no window, not visible, no hotkey, no message callback;
\* FPSMonitorApp(): m_visible(true).
WindowConstructed ==
    [hwnd |-> FALSE, visible |-> FALSE, hotkeyRegistered |-> FALSE,
     messageCallback |-> "none", appVisible |-> TRUE]

\* FPSMonitorApp before initialize(): nothing has run yet.
AppConstructed ==
    [pc |-> "constructed", iteration |-> 0, lastTime |-> 0, deltaTime |-> Zero,
     samples |-> <<>>, order |-> <<>>, headBefore |-> 0,
     statsArg |-> <<>>, dropArg |-> <<>>]

\* The threads that use the Logger: the one running WinMain and one more.
MainThread == "main"
LogThreads == {MainThread, "worker"}

\* static Logger instance: zero-initialized, then default-constructed; the log
\* file holds no line yet.
LoggerConstructed ==
    [m_mutex |-> "none",
     m_initialized |-> FALSE,
     m_file |-> [open |-> FALSE, lines |-> 0],
     pc |-> [t \in LogThreads |-> "idle"]]

\* The history variables before any call, and the application before it starts.
NoHistory ==
    /\ pushLog = <<>>
    /\ restartedAt = now
    /\ recomputedAt = -1
    /\ recordedAt = -1
    /\ breaches = <<>>
    /\ invoked = <<>>
    /\ twin = FreshCalculator
    /\ app = AppConstructed
    /\ win = WindowConstructed
    /\ logger = LoggerConstructed
    /\ call = [op |-> "constructed"]

----------------------------------------------------------------------------
(* RingBuffer under threads: every method body runs under                  *)
(* std::lock_guard<std::mutex> lock(m_mutex); each read or write of a      *)
(* member is one step.                                                     *)

Free == -1
Producer == 0
Readers == 1..NumReaders
Threads == {Producer} \cup Readers

NoLocals == [method |-> "none", i |-> 0, index |-> 0, value |-> Zero, result |-> <<>>, threw |-> "none"]

\* No thread is inside a method and the mutex is free.
ThreadsIdle ==
    /\ m_mutex = Free
    /\ pc = [t \in Threads |-> "idle"]
    /\ loc = [t \in Threads |-> NoLocals]
    /\ completed = 0

\* Mutant of Lock: the mutex is taken without waiting for its holder.
LockWithoutWaiting(t) == m_mutex' = t

\* std::lock_guard's constructor: blocks until the mutex is free, then owns it.
Lock(t) ==
    /\ m_mutex = Free
    /\ m_mutex' = t

\* std::lock_guard's destructor.
Unlock(t) == m_mutex' = Free

Goto(t, label) == pc' = [pc EXCEPT ![t] = label]

\* The producer thread calls push(value).
PushBegin(value) ==
    /\ pc[Producer] = "idle"
    /\ Len(pushLog) < MaxConcPushes
    /\ Goto(Producer, "push_lock")
    /\ loc' = [loc EXCEPT ![Producer] = [NoLocals EXCEPT !.value = value]]
    /\ pushLog' = Append(pushLog, value)
    /\ UNCHANGED <<ringVars, m_mutex, completed>>
    /\ UNCHANGED outsideConc

PushLock ==
    /\ pc[Producer] = "push_lock"
    /\ Lock(Producer)
    /\ Goto(Producer, "push_store")
    /\ UNCHANGED <<ringVars, loc, completed, pushLog>>
    /\ UNCHANGED outsideConc

\* m_buffer[m_head] = value;
PushStore ==
    /\ pc[Producer] = "push_store"
    /\ m_buffer' = [m_buffer EXCEPT ![m_head] = loc[Producer].value]
    /\ Goto(Producer, "push_head")
    /\ UNCHANGED <<m_head, m_size, m_mutex, loc, completed, pushLog>>
    /\ UNCHANGED outsideConc

\* m_head = (m_head + 1) % N;
PushHead ==
    /\ pc[Producer] = "push_head"
    /\ m_head' = (m_head + 1) % N
    /\ Goto(Producer, "push_size")
    /\ UNCHANGED <<m_buffer, m_size, m_mutex, loc, completed, pushLog>>
    /\ UNCHANGED outsideConc

\* if (m_size < N) ++m_size;
PushSize ==
    /\ pc[Producer] = "push_size"
    /\ m_size' = IF m_size < N THEN m_size + 1 ELSE m_size
    /\ Goto(Producer, "push_unlock")
    /\ UNCHANGED <<m_buffer, m_head, m_mutex, loc, completed, pushLog>>
    /\ UNCHANGED outsideConc

PushReturn ==
    /\ pc[Producer] = "push_unlock"
    /\ Unlock(Producer)
    /\ Goto(Producer, "idle")
    /\ completed' = completed + 1
    /\ UNCHANGED <<ringVars, loc, pushLog>>
    /\ UNCHANGED outsideConc

\* A reader thread calls getAll(), get(index) or size().
ReaderBegin(t, method, index) ==
    /\ pc[t] = "idle"
    /\ Goto(t, "lock")
    /\ loc' = [loc EXCEPT ![t] = [NoLocals EXCEPT !.method = method, !.index = index]]
    /\ UNCHANGED <<ringVars, m_mutex, completed, pushLog>>
    /\ UNCHANGED outsideConc

ReaderLock(t) ==
    /\ pc[t] = "lock"
    /\ Lock(t)
    /\ Goto(t, CASE loc[t].method = "getAll" -> "getAll_loop"
                 [] loc[t].method = "get" -> "get_check"
                 [] loc[t].method = "size" -> "size_read")
    /\ UNCHANGED <<ringVars, loc, completed, pushLog>>
    /\ UNCHANGED outsideConc

\* for (size_t i = 0; i < m_size; ++i) result.push_back(m_buffer[actualIndex]);
GetAllLoop(t) ==
    /\ pc[t] = "getAll_loop"
    /\ IF loc[t].i < m_size
       THEN /\ loc' = [loc EXCEPT ![t].result =
                          Append(@, m_buffer[ActualIndex(loc[t].i)]),
                                 ![t].i = @ + 1]
            /\ UNCHANGED pc
       ELSE /\ Goto(t, "unlock")
            /\ UNCHANGED loc
    /\ UNCHANGED <<ringVars, m_mutex, completed, pushLog>>
    /\ UNCHANGED outsideConc

\* if (index >= m_size) throw std::out_of_range(...); return m_buffer[actualIndex];
GetCheck(t) ==
    /\ pc[t] = "get_check"
    /\ loc' = [loc EXCEPT ![t].threw = Get(loc[t].index).threw,
                          ![t].value = Get(loc[t].index).value]
    /\ Goto(t, "unlock")
    /\ UNCHANGED <<ringVars, m_mutex, completed, pushLog>>
    /\ UNCHANGED outsideConc

\* return m_size;
SizeRead(t) ==
    /\ pc[t] = "size_read"
    /\ loc' = [loc EXCEPT ![t].value = R(m_size)]
    /\ Goto(t, "unlock")
    /\ UNCHANGED <<ringVars, m_mutex, completed, pushLog>>
    /\ UNCHANGED outsideConc

\* The method returns (or unwinds): the lock_guard releases the mutex.
ReaderUnlock(t) ==
    /\ pc[t] = "unlock"
    /\ Unlock(t)
    /\ Goto(t, "returned")
    /\ UNCHANGED <<ringVars, loc, completed, pushLog>>
    /\ UNCHANGED outsideConc

\* The caller has used the result.
ReaderDone(t) ==
    /\ pc[t] = "returned"
    /\ Goto(t, "idle")
    /\ loc' = [loc EXCEPT ![t] = NoLocals]
    /\ UNCHANGED <<ringVars, m_mutex, completed, pushLog>>
    /\ UNCHANGED outsideConc

InitConc ==
    /\ now = 0
    /\ RingConstructed
    /\ ThreadsIdle
    /\ FpsConstructed(N)
    /\ StatsConstructed(DefaultStatsMs)
    /\ DropConstructed(DefaultThreshold)
    /\ NoHistory

NextConc ==
    \/ PushBegin(R(Len(pushLog) + 1))
    \/ PushLock
    \/ PushStore
    \/ PushHead
    \/ PushSize
    \/ PushReturn
    \/ \E t \in Readers : ReaderBegin(t, "getAll", 0)
    \/ \E t \in Readers, index \in 0..N : ReaderBegin(t, "get", index)
    \/ \E t \in Readers : ReaderBegin(t, "size", 0)
    \/ \E t \in Readers : ReaderLock(t)
    \/ \E t \in Readers : GetAllLoop(t)
    \/ \E t \in Readers : GetCheck(t)
    \/ \E t \in Readers : SizeRead(t)
    \/ \E t \in Readers : ReaderUnlock(t)
    \/ \E t \in Readers : ReaderDone(t)

SpecConc == InitConc /\ [][NextConc]_vars

----------------------------------------------------------------------------
(* SpecRing: one thread using a RingBuffer directly *)

\* Values a caller pushes.
RingVals == {R(1), R(2)}

PushCall(value) ==
    /\ Len(pushLog) < MaxPushes
    /\ RingPush(value)
    /\ pushLog' = Append(pushLog, value)
    /\ call' = [op |-> "push", value |-> value]
    /\ UNCHANGED outsideRing

ClearCall ==
    /\ RingClear
    /\ pushLog' = <<>>
    /\ call' = [op |-> "clear"]
    /\ UNCHANGED outsideRing

GetCall(index) ==
    /\ call' = [op |-> "get", index |-> index, threw |-> Get(index).threw,
                value |-> Get(index).value]
    /\ UNCHANGED <<ringVars, pushLog>>
    /\ UNCHANGED outsideRing

LatestCall ==
    /\ call' = [op |-> "latest", threw |-> Latest.threw, value |-> Latest.value]
    /\ UNCHANGED <<ringVars, pushLog>>
    /\ UNCHANGED outsideRing

InitRing ==
    /\ now = 0
    /\ RingConstructed
    /\ ThreadsIdle
    /\ FpsConstructed(N)
    /\ StatsConstructed(DefaultStatsMs)
    /\ DropConstructed(DefaultThreshold)
    /\ NoHistory

NextRing ==
    \/ \E value \in RingVals : PushCall(value)
    \/ ClearCall
    \/ \E index \in 0..N : GetCall(index)
    \/ LatestCall

SpecRing == InitRing /\ [][NextRing]_vars

----------------------------------------------------------------------------
(* SpecFps: one thread driving an FpsCalculator *)

\* Frame times fed to update(), in seconds: negative, zero, 1/2000 (clamped to
\* MAX_FPS), 1/120, 1/60 and 1/30.
DeltaTimes == {Rat(-1, 60), Zero, Rat(1, 2000), Rat(1, 120), Rat(1, 60), Rat(1, 30)}

\* historySize arguments; 120 is the default, N + 1 exceeds MAX_HISTORY.
HistorySizes == 1..(N + 1)

\* How many update(deltaTime) calls, this one included and all with this positive
\* deltaTime, make up everything done to the calculator since it was empty;
\* 0 when this call does not continue such a run, counted up to N + 1.
RunOf(deltaTime) ==
    IF ~RLt(Zero, deltaTime) THEN 0
    ELSE IF m_size = 0 THEN 1
    ELSE IF call.op = "update" /\ call.deltaTime = deltaTime /\ call.run > 0
         THEN Min(call.run + 1, N + 1)
    ELSE 0

FpsUpdateCall(deltaTime) ==
    /\ FpsUpdate(deltaTime)
    /\ call' = [op |-> "update", deltaTime |-> deltaTime, run |-> RunOf(deltaTime)]
    /\ twin' = UpdateOn(twin, deltaTime)
    /\ UNCHANGED outsideFps

FpsResetCall ==
    /\ FpsReset
    /\ call' = [op |-> "reset"]
    /\ twin' = FreshCalculator
    /\ UNCHANGED outsideFps

InitFps ==
    /\ now = 0
    /\ RingConstructed
    /\ ThreadsIdle
    /\ \E historySize \in HistorySizes : FpsConstructed(historySize)
    /\ StatsConstructed(DefaultStatsMs)
    /\ DropConstructed(DefaultThreshold)
    /\ NoHistory

NextFps ==
    \/ \E deltaTime \in DeltaTimes : FpsUpdateCall(deltaTime)
    \/ FpsResetCall

SpecFps == InitFps /\ [][NextFps]_vars

----------------------------------------------------------------------------
(* SpecStats: one thread driving a StatsTracker while the clock runs *)

\* updateIntervalMs arguments, in milliseconds (config.ini's stats_update_ms is
\* passed on unchecked; the default is 500).
StatsIntervals == {-1, 0, 1, 2}

\* Snapshots handed to update(): none, one, two and three samples out of order,
\* and 101 descending samples, for which 0.01 * (n - 1) is a whole index.
SampleLists ==
    {<<>>, <<R(60)>>, <<R(60), R(30)>>, <<R(30), R(120), R(60)>>,
     [i \in 1..101 |-> R(2 * (102 - i))]}

StatsTick ==
    /\ now < MaxStatsTicks
    /\ now' = now + 1
    /\ UNCHANGED <<statsVars, restartedAt, recomputedAt, call>>
    /\ UNCHANGED outsideStats

StatsUpdateCall(samples) ==
    /\ StatsUpdate(samples)
    /\ call' = [op |-> "update", samples |-> samples, at |-> now,
                recomputed |-> IntervalElapsed,
                wasZero |-> m_stats = ZeroStats,
                \* nothing was recomputed since construction or the last reset()
                afterReset |-> \/ call.op \in {"constructed", "reset"}
                               \/ call.op = "update" /\ call.afterReset /\ ~call.recomputed,
                sinceRestart |-> now - restartedAt,
                hadPrevious |-> recomputedAt >= 0,
                sincePrevious |-> now - recomputedAt]
    /\ restartedAt' = IF IntervalElapsed THEN now ELSE restartedAt
    /\ recomputedAt' = IF IntervalElapsed THEN now ELSE recomputedAt
    /\ UNCHANGED now
    /\ UNCHANGED outsideStats

StatsResetCall ==
    /\ StatsReset
    /\ call' = [op |-> "reset"]
    /\ restartedAt' = now
    /\ UNCHANGED <<recomputedAt, now>>
    /\ UNCHANGED outsideStats

InitStats ==
    /\ now = 0
    /\ RingConstructed
    /\ ThreadsIdle
    /\ FpsConstructed(N)
    /\ \E updateIntervalMs \in StatsIntervals : StatsConstructed(updateIntervalMs)
    /\ DropConstructed(DefaultThreshold)
    /\ NoHistory

NextStats ==
    \/ StatsTick
    \/ \E samples \in SampleLists : StatsUpdateCall(samples)
    \/ StatsResetCall

SpecStats == InitStats /\ [][NextStats]_vars

----------------------------------------------------------------------------
(* SpecFloat: one thread driving a StatsTracker whose arithmetic rounds *)

\* Rates a frame time can give, each representable with SignificandBits bits.
FloatRates == {R(9), R(10), R(11), R(14), R(15)}

\* Snapshots handed to update(): up to three rates, repeats included.
FloatSampleLists == UNION {[1..k -> FloatRates] : k \in 0..3}

FloatUpdateCall(samples) ==
    /\ StatsUpdateRounded(samples)
    /\ call' = [op |-> "update", samples |-> samples, recomputed |-> IntervalElapsed]
    /\ UNCHANGED <<now, restartedAt, recomputedAt>>
    /\ UNCHANGED outsideStats

FloatResetCall ==
    /\ StatsReset
    /\ call' = [op |-> "reset"]
    /\ UNCHANGED <<now, restartedAt, recomputedAt>>
    /\ UNCHANGED outsideStats

\* The tracker recomputes at every update: updateIntervalMs = 0.
InitFloat ==
    /\ now = 0
    /\ RingConstructed
    /\ ThreadsIdle
    /\ FpsConstructed(N)
    /\ StatsConstructed(0)
    /\ DropConstructed(DefaultThreshold)
    /\ NoHistory

NextFloat ==
    \/ \E samples \in FloatSampleLists : FloatUpdateCall(samples)
    \/ FloatResetCall

SpecFloat == InitFloat /\ [][NextFloat]_vars

----------------------------------------------------------------------------
(* SpecLog: threads calling the Logger singleton.  Every method takes
   std::lock_guard<std::mutex> lock(m_mutex) first; taking the lock and the
   body under it are one step each. *)

outsideLog == <<win, app, twin, m_buffer, m_head, m_size, m_currentFPS, m_averageFPS,
                m_historySize, m_stats, m_lastUpdate, m_updateInterval,
                m_thresholdPercent, m_drops, m_callback, m_lastDrop, now,
                m_mutex, pc, loc, completed, pushLog,
                restartedAt, recomputedAt, recordedAt, breaches, invoked>>

\* What lock() does on a std::mutex the calling thread already owns.  The
\* behaviour is undefined ([thread.mutex.requirements.mutex]): the thread waits
\* for itself for ever, or the library detects it and lock() throws
\* std::system_error.
RelockOutcomes == {"blocks", "throws"}

\* checkRotation(): a file that has reached MAX_FILE_SIZE is closed, renamed and
\* a new one opened, which can fail; a closed file is left alone.
CheckRotation(file, reopens) ==
    IF ~file.open THEN file
    ELSE IF file.lines >= MaxLogLines THEN [open |-> reopens, lines |-> 0]
    ELSE file

\* m_file << ... << std::endl: one more line, if the stream is open.
WriteLine(file) ==
    IF file.open THEN [file EXCEPT !.lines = Min(@ + 1, MaxLogLines)] ELSE file

\* An idle thread enters a Logger method and reaches its lock_guard.
Entered(t, method) == [logger EXCEPT !.pc[t] = method]

\* std::lock_guard<std::mutex> lock(m_mutex): the thread takes the free mutex and
\* goes on to the body.
Locked(t, body) == [logger EXCEPT !.m_mutex = t, !.pc[t] = body]

\* Logger::getInstance().initialize("fps_monitor.log") in WinMain.
InitializeCall ==
    /\ logger.pc[MainThread] = "idle"
    /\ logger' = Entered(MainThread, "initialize")
    /\ UNCHANGED call
    /\ UNCHANGED outsideLog

InitializeLock ==
    /\ logger.pc[MainThread] = "initialize"
    /\ logger.m_mutex = "none"
    /\ logger' = Locked(MainThread, "initialize_body")
    /\ UNCHANGED call
    /\ UNCHANGED outsideLog

\* initialize() under the lock, up to the call of log(): return true if already
\* initialized, false if the file does not open; else set m_initialized and
\* call log(Level::Info, "Logger initialized") with the lock still held.
InitializeBody(opens) ==
    /\ logger.pc[MainThread] = "initialize_body"
    /\ IF logger.m_initialized
       THEN /\ logger' = [logger EXCEPT !.m_mutex = "none", !.pc[MainThread] = "idle"]
            /\ call' = [op |-> "initialize", wasInitialized |-> TRUE, opened |-> TRUE,
                        ret |-> "true", initialized |-> TRUE]
       ELSE IF ~opens
       THEN /\ logger' = [logger EXCEPT !.m_mutex = "none", !.pc[MainThread] = "idle",
                                         !.m_file.open = FALSE]
            /\ call' = [op |-> "initialize", wasInitialized |-> FALSE, opened |-> FALSE,
                        ret |-> "false", initialized |-> FALSE]
       ELSE /\ logger' = [logger EXCEPT !.m_file.open = TRUE, !.m_initialized = TRUE,
                                         !.pc[MainThread] = "initialize_log"]
            /\ UNCHANGED call
    /\ UNCHANGED outsideLog

\* The lock_guard of log(), reached from initialize() on the thread that holds
\* m_mutex.  If lock() throws, the exception leaves log() and initialize(), whose
\* lock_guard releases the mutex on the way out.
InitializeLog(outcome) ==
    /\ logger.pc[MainThread] = "initialize_log"
    /\ logger.m_mutex = MainThread
    /\ IF outcome = "blocks"
       THEN /\ logger' = [logger EXCEPT !.pc[MainThread] = "log_waits_for_itself"]
            /\ UNCHANGED call
       ELSE /\ logger' = [logger EXCEPT !.m_mutex = "none", !.pc[MainThread] = "idle"]
            /\ call' = [op |-> "initialize", wasInitialized |-> FALSE, opened |-> TRUE,
                        ret |-> "system_error", initialized |-> TRUE]
    /\ UNCHANGED outsideLog

\* log(level, message), called through info(), warning() or error().
LogCall(t) ==
    /\ logger.pc[t] = "idle"
    /\ logger' = Entered(t, "log")
    /\ UNCHANGED call
    /\ UNCHANGED outsideLog

LogLock(t) ==
    /\ logger.pc[t] = "log"
    /\ logger.m_mutex = "none"
    /\ logger' = Locked(t, "log_body")
    /\ UNCHANGED call
    /\ UNCHANGED outsideLog

LogBody(t, reopens) ==
    /\ logger.pc[t] = "log_body"
    /\ logger' = [logger EXCEPT
                     !.m_file = IF logger.m_initialized
                                THEN WriteLine(CheckRotation(@, reopens)) ELSE @,
                     !.m_mutex = "none",
                     !.pc[t] = "idle"]
    /\ call' = [op |-> "log", thread |-> t, initialized |-> logger.m_initialized]
    /\ UNCHANGED outsideLog

\* Logger::getInstance().shutdown() in WinMain.
ShutdownCall ==
    /\ logger.pc[MainThread] = "idle"
    /\ logger' = Entered(MainThread, "shutdown")
    /\ UNCHANGED call
    /\ UNCHANGED outsideLog

ShutdownLock ==
    /\ logger.pc[MainThread] = "shutdown"
    /\ logger.m_mutex = "none"
    /\ logger' = Locked(MainThread, "shutdown_body")
    /\ UNCHANGED call
    /\ UNCHANGED outsideLog

ShutdownBody ==
    /\ logger.pc[MainThread] = "shutdown_body"
    /\ logger' = IF logger.m_initialized /\ logger.m_file.open
                 THEN [logger EXCEPT !.m_file = [WriteLine(@) EXCEPT !.open = FALSE],
                                     !.m_initialized = FALSE,
                                     !.m_mutex = "none",
                                     !.pc[MainThread] = "idle"]
                 ELSE [logger EXCEPT !.m_mutex = "none", !.pc[MainThread] = "idle"]
    /\ call' = [op |-> "shutdown"]
    /\ UNCHANGED outsideLog

InitLog ==
    /\ now = 0
    /\ RingConstructed
    /\ ThreadsIdle
    /\ FpsConstructed(N)
    /\ StatsConstructed(DefaultStatsMs)
    /\ DropConstructed(DefaultThreshold)
    /\ NoHistory

NextLog ==
    \/ InitializeCall
    \/ InitializeLock
    \/ \E opens \in BOOLEAN : InitializeBody(opens)
    \/ \E outcome \in RelockOutcomes : InitializeLog(outcome)
    \/ \E t \in LogThreads : LogCall(t)
    \/ \E t \in LogThreads : LogLock(t)
    \/ \E t \in LogThreads, reopens \in BOOLEAN : LogBody(t, reopens)
    \/ ShutdownCall
    \/ ShutdownLock
    \/ ShutdownBody

SpecLog == InitLog /\ [][NextLog]_vars

----------------------------------------------------------------------------
(* SpecDrop: one thread driving a DropDetector while the clock runs *)

\* The clock advances in steps of 0.25 s, half of DEBOUNCE_SECONDS.
DropStep == 250 * TicksPerMs

\* thresholdPercent arguments of the constructor and of setThreshold (config.ini's
\* drop_threshold_percent is passed to the constructor unchecked).
Thresholds == {R(-50), R(3), R(15), R(99)}

\* (currentFPS, averageFPS) pairs fed to checkForDrop(): drops of 20 %,
\* 10 % and 15 % from 100, a full drop from an average below 10, a 20 % drop
\* from an average of exactly 10, and a rate 20 % above the average.
DropInputs ==
    {<<R(80), R(100)>>, <<R(90), R(100)>>, <<R(85), R(100)>>,
     <<R(0), R(9)>>, <<R(8), R(10)>>, <<R(120), R(100)>>}

\* The pairs fed to update(): a 20 % and a 10 % drop from 100, an average below
\* 10, and a rate above the average.
UpdateInputs == {<<R(80), R(100)>>, <<R(90), R(100)>>, <<R(0), R(9)>>, <<R(120), R(100)>>}

\* The callbacks given to setDropCallback(): the application's, which writes a
\* log line, and one that calls update() again with the drop it receives.
Callbacks == {"log", "reenter"}

DropTick ==
    /\ now + DropStep <= MaxDropSteps * DropStep
    /\ now' = now + DropStep
    /\ UNCHANGED <<dropVars, recordedAt, breaches, invoked, call>>
    /\ UNCHANGED outsideDrop

DropUpdateCall(currentFPS, averageFPS) ==
    LET breach == CheckForDrop(currentFPS, averageFPS)
        recorded == RecordsDrop(currentFPS, averageFPS)
        \* no Drop was recorded less than DEBOUNCE_SECONDS before this call
        fresh == \/ recordedAt = -1
                 \/ RLe(DEBOUNCE_SECONDS, SecondsBetween(recordedAt, now))
        \* this call and the breach before it are less than DEBOUNCE_SECONDS apart
        paired == /\ breach
                  /\ breaches # <<>>
                  /\ RLt(SecondsBetween(breaches[1].at, now), DEBOUNCE_SECONDS)
    IN  /\ DropUpdate(currentFPS, averageFPS)
        /\ call' = [op |-> "update", currentFPS |-> currentFPS,
                    averageFPS |-> averageFPS, breach |-> breach, recorded |-> recorded,
                    wasFull |-> Len(m_drops) = MAX_DROP_HISTORY, fresh |-> fresh,
                    paired |-> paired,
                    pairFresh |-> paired /\ breaches[1].fresh,
                    pairRecorded |-> IF paired
                                     THEN (IF breaches[1].recorded THEN 1 ELSE 0)
                                          + (IF recorded THEN 1 ELSE 0)
                                     ELSE 0]
        /\ recordedAt' = IF recorded THEN now ELSE recordedAt
        /\ breaches' = IF breach
                       THEN <<[at |-> now, recorded |-> recorded, fresh |-> fresh]>>
                       ELSE breaches
        /\ UNCHANGED now
        /\ UNCHANGED outsideDrop

CheckForDropCall(currentFPS, averageFPS) ==
    /\ call' = [op |-> "checkForDrop", currentFPS |-> currentFPS,
                averageFPS |-> averageFPS,
                ret |-> CheckForDrop(currentFPS, averageFPS)]
    /\ UNCHANGED <<dropVars, recordedAt, breaches, invoked, now>>
    /\ UNCHANGED outsideDrop

\* seconds arguments of getRecentDrops(): none, the debounce time, one second.
RecentWindows == {Zero, Rat(1, 2), R(1)}

GetRecentDropsCall(seconds) ==
    /\ call' = [op |-> "getRecentDrops", seconds |-> seconds,
                ret |-> GetRecentDrops(seconds)]
    /\ UNCHANGED <<dropVars, recordedAt, breaches, invoked, now>>
    /\ UNCHANGED outsideDrop

SetThresholdCall(thresholdPercent) ==
    /\ SetThreshold(thresholdPercent)
    /\ call' = [op |-> "setThreshold", thresholdPercent |-> thresholdPercent]
    /\ UNCHANGED <<recordedAt, breaches, invoked, now>>
    /\ UNCHANGED outsideDrop

SetDropCallbackCall(callback) ==
    /\ SetDropCallback(callback)
    /\ call' = [op |-> "setDropCallback"]
    /\ UNCHANGED <<recordedAt, breaches, invoked, now>>
    /\ UNCHANGED outsideDrop

ClearHistoryCall ==
    /\ ClearHistory
    /\ call' = [op |-> "clearHistory"]
    /\ UNCHANGED <<recordedAt, breaches, invoked, now>>
    /\ UNCHANGED outsideDrop

InitDrop ==
    /\ now = 0
    /\ RingConstructed
    /\ ThreadsIdle
    /\ FpsConstructed(N)
    /\ StatsConstructed(DefaultStatsMs)
    /\ \E thresholdPercent \in Thresholds : DropConstructed(thresholdPercent)
    /\ NoHistory

NextDrop ==
    \/ DropTick
    \/ \E input \in UpdateInputs : DropUpdateCall(input[1], input[2])
    \/ \E input \in DropInputs : CheckForDropCall(input[1], input[2])
    \/ \E seconds \in RecentWindows : GetRecentDropsCall(seconds)
    \/ \E thresholdPercent \in Thresholds : SetThresholdCall(thresholdPercent)
    \/ \E callback \in Callbacks : SetDropCallbackCall(callback)
    \/ ClearHistoryCall

SpecDrop == InitDrop /\ [][NextDrop]_vars

----------------------------------------------------------------------------
(* SpecApp: FPSMonitorApp::initialize() and the main loop of run(), statement   *)
(* by statement, driving the three components with the Timer's measurements.  *)
(* The statements take no time on the model's clock; time passes in Sleep().  *)

outsideApp == <<logger, win, twin, m_historySize, m_mutex, pc, loc, completed, pushLog,
                restartedAt, recomputedAt, recordedAt, breaches, call>>

\* How long Sleep() plus the rest of an iteration takes, in ticks: less than the
\* clock resolves, one tick, 16 ms (the default update_rate_ms) and 500 ms.
SleepTicks == {0, 1, 16 * TicksPerMs, 500 * TicksPerMs}

\* Mutant of NextStatement: the tracker is served before the calculator.
NextStatementStatsFirst(statement) ==
    CASE statement = "timer" -> "snapshot"
      [] statement = "snapshot" -> "stats"
      [] statement = "stats" -> "fps"
      [] statement = "fps" -> "drop"
      [] statement = "drop" -> "sleep"

\* The order of the statements in the body of while (m_running).
NextStatement(statement) ==
    CASE statement = "timer" -> "fps"
      [] statement = "fps" -> "snapshot"
      [] statement = "snapshot" -> "stats"
      [] statement = "stats" -> "drop"
      [] statement = "drop" -> "sleep"

\* initialize(): the components exist; the drop callback that logs is registered.
AppInitialize ==
    /\ app.pc = "constructed"
    /\ SetDropCallback("log")
    /\ app' = [app EXCEPT !.pc = "start"]
    /\ UNCHANGED <<ringVars, fpsVars, statsVars, invoked, now>>
    /\ UNCHANGED outsideApp

\* run(): m_running = true; m_timer->start();
AppStart ==
    /\ app.pc = "start"
    /\ app' = [app EXCEPT !.pc = "messages", !.lastTime = now]
    /\ UNCHANGED <<ringVars, fpsVars, statsVars, dropVars, invoked, now>>
    /\ UNCHANGED outsideApp

\* while (m_running) { if (!m_windowManager->processMessages()) break;
AppProcessMessages(quit) ==
    /\ app.pc = "messages"
    /\ quit \/ app.iteration < MaxIterations
    /\ app' = [app EXCEPT !.pc = IF quit THEN "exited" ELSE "timer"]
    /\ UNCHANGED <<ringVars, fpsVars, statsVars, dropVars, invoked, now>>
    /\ UNCHANGED outsideApp

\* double deltaTime = m_timer->getDeltaTime(): the time since the last call, and
\* m_lastTime = currentTime.
AppGetDeltaTime ==
    /\ app.pc = "timer"
    /\ app' = [app EXCEPT !.pc = NextStatement("timer"),
                          !.iteration = @ + 1,
                          !.deltaTime = SecondsBetween(app.lastTime, now),
                          !.lastTime = now,
                          !.order = <<>>]
    /\ UNCHANGED <<ringVars, fpsVars, statsVars, dropVars, invoked, now>>
    /\ UNCHANGED outsideApp

\* m_fpsCalculator->update(deltaTime);
AppFpsUpdate ==
    /\ app.pc = "fps"
    /\ FpsUpdate(app.deltaTime)
    /\ app' = [app EXCEPT !.pc = NextStatement("fps"),
                          !.order = Append(@, "FpsCalculator::update"),
                          !.headBefore = m_head]
    /\ UNCHANGED <<statsVars, dropVars, invoked, now>>
    /\ UNCHANGED outsideApp

\* auto samples = m_fpsCalculator->getSamples();
AppGetSamples ==
    /\ app.pc = "snapshot"
    /\ app' = [app EXCEPT !.pc = NextStatement("snapshot"),
                          !.samples = GetSamples,
                          !.order = Append(@, "FpsCalculator::getSamples")]
    /\ UNCHANGED <<ringVars, fpsVars, statsVars, dropVars, invoked, now>>
    /\ UNCHANGED outsideApp

\* m_statsTracker->update(samples);
AppStatsUpdate ==
    /\ app.pc = "stats"
    /\ StatsUpdate(app.samples)
    /\ app' = [app EXCEPT !.pc = NextStatement("stats"),
                          !.statsArg = app.samples,
                          !.order = Append(@, "StatsTracker::update")]
    /\ UNCHANGED <<ringVars, fpsVars, dropVars, invoked, now>>
    /\ UNCHANGED outsideApp

\* m_dropDetector->update(m_fpsCalculator->getCurrentFPS(),
\*                        m_fpsCalculator->getAverageFPS());
AppDropUpdate ==
    /\ app.pc = "drop"
    /\ DropUpdate(m_currentFPS, m_averageFPS)
    /\ app' = [app EXCEPT !.pc = NextStatement("drop"),
                          !.dropArg = <<m_currentFPS, m_averageFPS>>,
                          !.order = Append(@, "DropDetector::update")]
    /\ UNCHANGED <<ringVars, fpsVars, statsVars, now>>
    /\ UNCHANGED outsideApp

\* if (isVisible()) render(); Sleep(targetFrameTime * 1000); }  render() only reads.
AppSleep(ticks) ==
    /\ app.pc = "sleep"
    /\ now' = now + ticks
    /\ app' = [app EXCEPT !.pc = "messages"]
    /\ UNCHANGED <<ringVars, fpsVars, statsVars, dropVars, invoked>>
    /\ UNCHANGED outsideApp

InitApp ==
    /\ now = 0
    /\ RingConstructed
    /\ ThreadsIdle
    /\ FpsConstructed(120)
    /\ StatsConstructed(DefaultStatsMs)
    /\ DropConstructed(DefaultThreshold)
    /\ NoHistory

NextApp ==
    \/ AppInitialize
    \/ AppStart
    \/ \E quit \in BOOLEAN : AppProcessMessages(quit)
    \/ AppGetDeltaTime
    \/ AppFpsUpdate
    \/ AppGetSamples
    \/ AppStatsUpdate
    \/ AppDropUpdate
    \/ \E ticks \in SleepTicks : AppSleep(ticks)

SpecApp == InitApp /\ [][NextApp]_vars

----------------------------------------------------------------------------
(* SpecWin: the overlay window, its toggle hotkey and its window procedure     *)

outsideWin == <<logger, app, twin, m_buffer, m_head, m_size, m_currentFPS, m_averageFPS,
                m_historySize, m_stats, m_lastUpdate, m_updateInterval,
                m_thresholdPercent, m_drops, m_callback, m_lastDrop, now,
                m_mutex, pc, loc, completed, pushLog,
                restartedAt, recomputedAt, recordedAt, breaches, invoked>>

\* static constexpr UINT HOTKEY_ID = 1
HOTKEY_ID == 1

\* Messages that reach the window procedure, their wParam (a hotkey id) and
\* their lParam (for the tray icon's message, the mouse event).
Messages == {"WM_HOTKEY", "WM_TRAYICON", "WM_PAINT"}
WParams == {HOTKEY_ID, HOTKEY_ID + 1}
LParams == {"WM_LBUTTONUP", "WM_MOUSEMOVE"}

\* show() and hide(): nothing without a window.
Shown(w) == IF w.hwnd THEN [w EXCEPT !.visible = TRUE] ELSE w
Hidden(w) == IF w.hwnd THEN [w EXCEPT !.visible = FALSE] ELSE w

\* toggleVisibility()
ToggledVisibility(w) == IF w.visible THEN Hidden(w) ELSE Shown(w)

\* setVisible(visible), declared in window_manager.h: true to show, false to hide.
SetVisible(w, visible) == IF visible THEN Shown(w) ELSE Hidden(w)

\* TrayIcon::handleMessage(msg, wParam, lParam) with the toggle callback that
\* initialize() installs: a left click on the icon flips FPSMonitorApp::m_visible
\* and passes it to setVisible; handled is the return value.
TrayHandleMessage(w, msg, lParam) ==
    IF msg = "WM_TRAYICON" /\ lParam = "WM_LBUTTONUP"
    THEN [handled |-> TRUE,
          w |-> SetVisible([w EXCEPT !.appVisible = ~w.appVisible], ~w.appVisible)]
    ELSE [handled |-> FALSE, w |-> w]

\* The message callback that initialize() installs: 0 when the tray icon handled
\* the message, else 1.
MessageCallback(w, msg, lParam) ==
    LET tray == TrayHandleMessage(w, msg, lParam)
    IN  [result |-> IF tray.handled THEN 0 ELSE 1, w |-> tray.w]

\* handleMessage(hwnd, msg, wParam, lParam): the members it leaves and the LRESULT
\* it returns.  DefWindowProc is taken to return 0.
HandleMessage(msg, wParam, lParam) ==
    LET called == IF win.messageCallback # "none"
                  THEN MessageCallback(win, msg, lParam)
                  ELSE [result |-> 0, w |-> win]
    IN  IF win.messageCallback # "none" /\ called.result # 0
        THEN [ret |-> called.result, w |-> called.w]
        ELSE IF msg = "WM_HOTKEY" /\ wParam = HOTKEY_ID
             THEN [ret |-> 0, w |-> ToggledVisibility(called.w)]
             ELSE [ret |-> 0, w |-> called.w]

WinCreate(created) ==
    /\ ~win.hwnd
    /\ win' = [win EXCEPT !.hwnd = created]
    /\ call' = [op |-> "create", ret |-> created]
    /\ UNCHANGED outsideWin

WinShow ==
    /\ win' = Shown(win)
    /\ call' = [op |-> "show"]
    /\ UNCHANGED outsideWin

WinHide ==
    /\ win' = Hidden(win)
    /\ call' = [op |-> "hide"]
    /\ UNCHANGED outsideWin

\* registerHotkey(vkCode): an earlier registration is dropped first (when there
\* is a window); registered is whether RegisterHotKey succeeds.
WinRegisterHotkey(registered) ==
    /\ win' = [win EXCEPT !.hotkeyRegistered =
                   IF registered THEN TRUE
                   ELSE IF win.hwnd THEN FALSE ELSE win.hotkeyRegistered]
    /\ call' = [op |-> "registerHotkey", ret |-> registered]
    /\ UNCHANGED outsideWin

\* setMessageCallback(callback), as initialize() calls it once the tray icon is up.
WinSetMessageCallback ==
    /\ win' = [win EXCEPT !.messageCallback = "tray"]
    /\ call' = [op |-> "setMessageCallback"]
    /\ UNCHANGED outsideWin

\* A message arrives at windowProc of the existing window.
WinHandleMessage(msg, wParam, lParam) ==
    /\ win.hwnd
    /\ win' = HandleMessage(msg, wParam, lParam).w
    /\ call' = [op |-> "handleMessage", msg |-> msg, wParam |-> wParam, lParam |-> lParam,
                ret |-> HandleMessage(msg, wParam, lParam).ret,
                wasVisible |-> win.visible,
                hotkeyRegistered |-> win.hotkeyRegistered,
                messageCallback |-> win.messageCallback]
    /\ UNCHANGED outsideWin

InitWin ==
    /\ now = 0
    /\ RingConstructed
    /\ ThreadsIdle
    /\ FpsConstructed(N)
    /\ StatsConstructed(DefaultStatsMs)
    /\ DropConstructed(DefaultThreshold)
    /\ NoHistory

NextWin ==
    \/ \E created \in BOOLEAN : WinCreate(created)
    \/ WinShow
    \/ WinHide
    \/ \E registered \in BOOLEAN : WinRegisterHotkey(registered)
    \/ WinSetMessageCallback
    \/ \E msg \in Messages, wParam \in WParams, lParam \in LParams :
          WinHandleMessage(msg, wParam, lParam)

SpecWin == InitWin /\ [][NextWin]_vars

----------------------------------------------------------------------------
(* Claims *)

\* C1: after any sequence of pushes the buffer retains exactly the last
\* min(N, pushCount) pushed values in push order: getAll() has length size(),
\* getAll()[i] = get(i) for every i < size(), and once more than N values were
\* pushed size() = N and get(0) is the (pushCount - N)-th pushed value.
C1_OldestOverwrite ==
    LET pushCount == Len(pushLog)
        kept == Min(N, pushCount)
    IN  /\ Size = kept
        /\ Len(GetAll) = Size
        /\ GetAll = LastN(pushLog, kept)
        /\ \A i \in 0..(Size - 1) : Get(i) = [threw |-> "none", value |-> GetAll[i + 1]]
        /\ pushCount > N =>
              /\ Size = N
              /\ Get(0).value = pushLog[(pushCount - N) + 1]

\* C1 witness: more than N values were pushed, so the oldest was overwritten.
C1_Witness == Len(pushLog) > N /\ call.op = "push" /\ pushLog[1] # pushLog[N + 1]

\* The content of the buffer at the instant exactly c pushes had been made.
ContentAfter(c) == LastN(SubSeq(pushLog, 1, c), Min(N, c))

\* C6: with one producer thread calling push and reader threads calling
\* getAll(), get() and size(), every getAll() result is the buffer's content at
\* one single instant at which no push was in progress: the last min(N, c) values
\* of the push sequence, in push order, for some number c of completed pushes.
C6_SnapshotIsAtomic ==
    \A t \in Readers :
        (loc[t].method = "getAll" /\ pc[t] = "returned") =>
            \E c \in 0..completed : loc[t].result = ContentAfter(c)

\* C6 witness: a getAll() returned a full snapshot while the producer had
\* already entered a later push and was at its lock_guard.
C6_Witness ==
    \E t \in Readers :
        /\ loc[t].method = "getAll"
        /\ pc[t] = "returned"
        /\ Len(loc[t].result) = N
        /\ completed >= N
        /\ pc[Producer] = "push_lock"

\* The arithmetic mean of a non-empty sequence of samples.
Mean(samples) == RDiv(SumSeq(samples), R(Len(samples)))

\* C4: after any sequence of update(d) (any d) and reset() calls, getAverageFPS()
\* is the arithmetic mean of exactly the samples getSamples() returns, and 0.0
\* when the buffer is empty.
C4_AverageIsMeanOfWindow ==
    m_averageFPS = IF GetSamples = <<>> THEN Zero ELSE Mean(GetSamples)

\* C4 witness: the buffer has wrapped, the evicted sample differed from the one
\* that replaced it, and the samples are not all equal.
C4_Witness ==
    /\ call.op = "update"
    /\ GetSampleCount = N
    /\ m_head # 0
    /\ GetSamples[1] # GetSamples[N]
    /\ m_averageFPS # m_currentFPS

\* C5 as claimed: a calculator constructed with historySize h keeps at most h
\* samples and averages over those.
C5_WindowIsHistorySize ==
    /\ GetSampleCount <= m_historySize
    /\ Len(GetSamples) <= m_historySize

\* C9: update(deltaTime) with deltaTime <= 0 changes none of getCurrentFPS(),
\* getAverageFPS(), getSampleCount() and getSamples().
C9_NonPositiveDeltaIsNoOp ==
    [][(call'.op = "update" /\ RLe(call'.deltaTime, Zero)) =>
          /\ m_currentFPS' = m_currentFPS
          /\ m_averageFPS' = m_averageFPS
          /\ GetSampleCount' = GetSampleCount
          /\ GetSamples' = GetSamples]_vars

\* C9 witness: update was called with a non-positive deltaTime on a calculator
\* that holds samples.
C9_Witness ==
    /\ call.op = "update"
    /\ RLe(call.deltaTime, Zero)
    /\ GetSampleCount > 0
    /\ m_currentFPS # Zero

\* C8 as claimed: update(samples) recomputes if and only if at least updateInterval
\* has elapsed since the previous recomputation.
C8_RecomputesIffIntervalSincePrevious ==
    (call.op = "update" /\ call.hadPrevious) =>
        (call.recomputed <=> call.sincePrevious >= m_updateInterval * TicksPerMs)

\* C8 amended: update(samples) recomputes if and only if at least updateInterval
\* has elapsed since the throttle clock was last restarted (by construction, by
\* the previous recomputation or by reset()); a call made earlier leaves the five
\* statistics as they were whatever samples it is given; and two recomputations
\* are at least updateInterval apart.
C8_Throttle ==
    /\ [](call.op = "update" =>
            /\ call.recomputed <=> call.sinceRestart >= m_updateInterval * TicksPerMs
            /\ (call.recomputed /\ call.hadPrevious) =>
                   call.sincePrevious >= m_updateInterval * TicksPerMs)
    /\ [][(call'.op = "update" /\ ~call'.recomputed) => m_stats' = m_stats]_vars

\* C8 witness: after a recomputation, an update() arrived too early with samples
\* that would have changed the statistics, and was ignored.
C8_Witness ==
    /\ call.op = "update"
    /\ ~call.recomputed
    /\ call.hadPrevious
    /\ call.sinceRestart > 0
    /\ m_stats # ZeroStats
    /\ m_stats # CalculateStats(call.samples)

\* C2 as claimed: two update() calls that both satisfy checkForDrop and are less
\* than the debounce time apart record exactly one Drop between them, wherever in
\* the detector's life the pair starts outside the debounce window of an earlier
\* Drop, the first two breaches after construction included.
C2_PairRecordsExactlyOne ==
    (call.op = "update" /\ call.paired /\ call.pairFresh) => call.pairRecorded = 1

\* C3 as claimed: getThreshold() lies in [5, 50] in every reachable state, the one
\* right after construction included.
C3_ThresholdInRange ==
    RLe(R(5), m_thresholdPercent) /\ RLe(m_thresholdPercent, R(50))

\* (average - current) / average * 100
DropPercentOf(current, average) == RMul(RDiv(RSub(average, current), average), R(100))

\* C7: checkForDrop(current, average) returns true exactly when average >= 10 and
\* (average - current) / average * 100 >= the stored threshold; with threshold 15,
\* (80, 100) is detected and (90, 100) is not; no pair with average < 10 is
\* detected; and the call changes no state of the detector.
C7_CheckForDrop ==
    /\ [](call.op = "checkForDrop" =>
            /\ call.ret <=>
                  /\ RLe(R(10), call.averageFPS)
                  /\ RLe(m_thresholdPercent, DropPercentOf(call.currentFPS, call.averageFPS))
            /\ (m_thresholdPercent = R(15) /\ call.averageFPS = R(100)) =>
                  /\ call.currentFPS = R(80) => call.ret
                  /\ call.currentFPS = R(90) => ~call.ret
            /\ RLt(call.averageFPS, R(10)) => ~call.ret)
    /\ [][call'.op = "checkForDrop" => UNCHANGED dropVars]_vars

\* C7 witness: checkForDrop was called with a drop of exactly the threshold, 15 %
\* of an average of 100, and reported it.
C7_Witness ==
    /\ call.op = "checkForDrop"
    /\ m_thresholdPercent = R(15)
    /\ call.currentFPS = R(85)
    /\ call.averageFPS = R(100)
    /\ call.ret

\* C10: getDrops() never holds more than MAX_DROP_HISTORY events and its timestamps
\* never decrease from front to back; an update() that records an event appends
\* it, removing exactly the oldest event when the history was full, and leaves
\* every other event as it was and in its place; an update() that records nothing
\* leaves the history as it was.
C10_BoundedHistory ==
    /\ [](/\ Len(m_drops) <= MAX_DROP_HISTORY
          /\ \A i \in 1..(Len(m_drops) - 1) :
                m_drops[i].timestamp <= m_drops[i + 1].timestamp)
    /\ [][IF recordedAt' # recordedAt
          THEN /\ m_drops' # <<>>
               /\ m_drops'[Len(m_drops')].timestamp = now
               /\ m_drops' = Append(IF Len(m_drops) = MAX_DROP_HISTORY
                                    THEN Tail(m_drops) ELSE m_drops,
                                    m_drops'[Len(m_drops')])
          ELSE call'.op # "clearHistory" => m_drops' = m_drops]_vars

\* C10 witness: an update() recorded an event into a full history.
C10_Witness ==
    /\ call.op = "update"
    /\ call.recorded
    /\ call.wasFull
    /\ Len(m_drops) = MAX_DROP_HISTORY
    /\ m_drops[1].timestamp < m_drops[Len(m_drops)].timestamp

\* C11: with a callback registered, an update() that records a Drop invokes the
\* callback exactly once within the call, passing the new event, and the callback
\* finds the event at the back of the history and the last-drop time already set
\* to the event's time; an update() that records nothing (no breach, or a breach
\* inside the debounce window), or one made with no callback, invokes nothing.
\* (A step that leaves the clock alone and ends with call.op = "update" is an
\* update() call.)
C11_CallbackOncePerRecordedDrop ==
    [][(call'.op = "update" /\ now' = now) =>
          IF m_drops' # m_drops /\ m_callback # "none"
          THEN /\ Len(invoked') = 1
               /\ invoked'[1].callback = m_callback
               /\ invoked'[1].drop = m_drops'[Len(m_drops')]
               /\ invoked'[1].drop.timestamp = now
               /\ invoked'[1].drops = m_drops'
               /\ invoked'[1].lastDrop = now
               /\ m_lastDrop' = now
          ELSE invoked' = <<>>]_vars

\* C11 witness: an update() recorded an event into a full history and invoked the
\* registered callback with it.
C11_Witness ==
    /\ call.op = "update"
    /\ call.recorded
    /\ call.wasFull
    /\ m_callback = "log"
    /\ Len(invoked) = 1
    /\ invoked[1].drop = m_drops[Len(m_drops)]

\* C12: get(index) raises out_of_range exactly when index >= size(), and latest()
\* raises the empty-buffer failure exactly when the buffer holds no sample; neither
\* call, failing or not, changes size() or the content; on a non-empty buffer
\* latest() is get(size() - 1), the value pushed last.
C12_InvalidAccessFails ==
    /\ [](/\ call.op = "get" =>
                /\ call.threw = (IF call.index >= Size THEN "out_of_range" ELSE "none")
                /\ call.index < Size => call.value = GetAll[call.index + 1]
          /\ call.op = "latest" =>
                call.threw = (IF Size = 0 THEN "runtime_error" ELSE "none")
          /\ Size > 0 =>
                /\ Latest = Get(Size - 1)
                /\ Latest = [threw |-> "none", value |-> pushLog[Len(pushLog)]])
    /\ [][call'.op \in {"get", "latest"} =>
            /\ Size' = Size
            /\ GetAll' = GetAll
            /\ UNCHANGED ringVars]_vars

\* C12 witness: get(size()) failed on a buffer that holds samples and has wrapped,
\* so the slot the index would map to holds a live value.
C12_Witness ==
    /\ call.op = "get"
    /\ call.threw = "out_of_range"
    /\ call.index = Size
    /\ Size = N
    /\ Len(pushLog) > N

\* C13: size() is min(N, pushes since the last clear()) and never exceeds
\* capacity(), which is always N; right after clear() the buffer is empty; the
\* first value pushed after a clear() is get(0); and what get(), latest() and
\* getAll() return are values pushed since the last clear(), never a value that
\* only an earlier push left in a slot.
C13_SizeAndClear ==
    /\ Size = Min(N, Len(pushLog))
    /\ Size <= Capacity
    /\ Capacity = N
    /\ IsEmpty <=> Size = 0
    /\ call.op = "clear" => (IsEmpty /\ Size = 0 /\ GetAll = <<>>)
    /\ Len(pushLog) = 1 => Get(0) = [threw |-> "none", value |-> pushLog[1]]
    /\ GetAll = LastN(pushLog, Size)
    /\ \A index \in 0..N :
          Get(index).threw = "none" => Get(index).value = LastN(pushLog, Size)[index + 1]
    /\ Latest.threw = "none" => Latest.value = pushLog[Len(pushLog)]

\* C13 witness: a buffer that held values was cleared and one value was pushed
\* since, while a slot still holds a different value from before the clear().
C13_Witness ==
    /\ call.op = "push"
    /\ Len(pushLog) = 1
    /\ Size = 1
    /\ \E slot \in 0..(N - 1) : m_buffer[slot] # Zero /\ m_buffer[slot] # pushLog[1]
    /\ Get(0).value = pushLog[1]

\* C14: after any sequence of update() calls with any deltaTime, getCurrentFPS()
\* and every sample in getSamples() lie in [0, 1000]; and right after an update
\* with deltaTime > 0 the newest sample equals getCurrentFPS(), which is
\* min(1 / deltaTime, 1000).
C14_RatesClamped ==
    /\ RLe(Zero, m_currentFPS) /\ RLe(m_currentFPS, R(1000))
    /\ \A i \in 1..Len(GetSamples) :
          RLe(Zero, GetSamples[i]) /\ RLe(GetSamples[i], R(1000))
    /\ (call.op = "update" /\ RLt(Zero, call.deltaTime)) =>
          /\ GetSampleCount > 0
          /\ GetSamples[GetSampleCount] = m_currentFPS
          /\ Latest.value = m_currentFPS
          /\ m_currentFPS = RMin(RDiv(R(1), call.deltaTime), R(1000))

\* C14 witness: update() was given a frame time shorter than 1/1000 s and the
\* rate was clamped, on a buffer that also holds an unclamped sample.
C14_Witness ==
    /\ call.op = "update"
    /\ call.deltaTime = Rat(1, 2000)
    /\ m_currentFPS = R(1000)
    /\ GetSampleCount > 1
    /\ GetSamples[1] # R(1000)

\* C15 as claimed: from an empty calculator, k <= N updates with the same d > 0
\* leave getAverageFPS() equal to 1 / d, for every positive d.
C15_ConstantDeltaGivesInverse ==
    (call.op = "update" /\ call.run >= 1 /\ call.run <= N) =>
        m_averageFPS = RDiv(R(1), call.deltaTime)

\* C15 amended: from an empty calculator, k <= N updates with the same d > 0 leave
\* getAverageFPS() equal to min(1 / d, 1000): 1 / d for d >= 1/1000, and 1000 for
\* a shorter d.
C15_ConstantDeltaGivesClampedInverse ==
    (call.op = "update" /\ call.run >= 1 /\ call.run <= N) =>
        /\ m_averageFPS = RMin(RDiv(R(1), call.deltaTime), MAX_FPS)
        /\ RLe(Rat(1, 1000), call.deltaTime) => m_averageFPS = RDiv(R(1), call.deltaTime)
        /\ GetSampleCount = call.run

\* C15 witness: N updates with d = 1/120 on a calculator that was empty filled the
\* buffer and left the average at 120.
C15_Witness ==
    /\ call.op = "update"
    /\ call.run = N
    /\ call.deltaTime = Rat(1, 120)
    /\ GetSampleCount = N
    /\ m_averageFPS = R(120)

\* C16 as claimed: every event in the history stores the average and current rate
\* it was recorded for, its magnitude is (average - current) / average, and the
\* magnitude lies in [0, 1], however the detector was constructed or configured.
C16_MagnitudeInUnitRange ==
    \A i \in 1..Len(m_drops) :
        LET drop == m_drops[i]
        IN  /\ drop.magnitude = RDiv(RSub(drop.averageFPS, drop.currentFPS), drop.averageFPS)
            /\ RLe(Zero, drop.magnitude)
            /\ RLe(drop.magnitude, R(1))

\* C17: setThreshold(p) stores max(5, min(p, 50)) and accepts every p: 3 is stored
\* as 5, 99 as 50 and a p in [5, 50] as it is; the call changes neither the drop
\* history nor the last-drop time (nor the callback).
C17_SetThresholdClamps ==
    /\ [](call.op = "setThreshold" =>
            LET p == call.thresholdPercent
            IN  /\ m_thresholdPercent = RMax(R(5), RMin(p, R(50)))
                /\ p = R(3) => m_thresholdPercent = R(5)
                /\ p = R(99) => m_thresholdPercent = R(50)
                /\ (RLe(R(5), p) /\ RLe(p, R(50))) => m_thresholdPercent = p
                /\ RLe(R(5), m_thresholdPercent) /\ RLe(m_thresholdPercent, R(50)))
    /\ [][call'.op = "setThreshold" => UNCHANGED <<m_drops, m_lastDrop, m_callback>>]_vars

\* C17 witness: setThreshold(3) was called on a detector that holds a recorded
\* event, and 5 was stored.
C17_Witness ==
    /\ call.op = "setThreshold"
    /\ call.thresholdPercent = R(3)
    /\ m_thresholdPercent = R(5)
    /\ m_drops # <<>>
    /\ m_lastDrop > 0

\* The age in seconds, at the present time, of the i-th event of the history.
AgeOf(i) == Rat(now - m_drops[i].timestamp, 1000 * TicksPerMs)

\* C18: getRecentDrops(seconds) returns exactly the events of getDrops() that are
\* at most seconds old, in their original order (they are the newest events, so
\* the result is the back of the history), and leaves the detector as it was;
\* getRecentDrops(0) on a history whose timestamps all lie strictly in the past
\* returns an empty list.  (A step that leaves the clock alone and ends with
\* call.op = "getRecentDrops" is a getRecentDrops() call.)
C18_RecentDropsAreTheYoungEvents ==
    [][(call'.op = "getRecentDrops" /\ now' = now) =>
          LET ret == call'.ret
              young == {i \in 1..Len(m_drops) : RLe(AgeOf(i), call'.seconds)}
          IN  /\ Len(ret) = Cardinality(young)
              /\ ret = LastN(m_drops, Len(ret))
              /\ \A i \in 1..Len(m_drops) : i \in young <=> i > Len(m_drops) - Len(ret)
              /\ (call'.seconds = Zero /\ \A i \in 1..Len(m_drops) : m_drops[i].timestamp < now)
                    => ret = <<>>
              /\ UNCHANGED dropVars]_vars

\* C18 witness: getRecentDrops(0.5) on a history of two events returned only the
\* newer one, which was exactly 0.5 s old.
C18_Witness ==
    /\ call.op = "getRecentDrops"
    /\ call.seconds = Rat(1, 2)
    /\ Len(m_drops) = 2
    /\ call.ret = <<m_drops[2]>>
    /\ AgeOf(2) = Rat(1, 2)
    /\ RLt(Rat(1, 2), AgeOf(1))

\* C19: clearHistory() empties getDrops() and leaves getThreshold(), the callback
\* and the last-drop time as they were; so an update() that breaches less than
\* the debounce time after the last recorded Drop records nothing, also when the
\* history was cleared in between.
C19_ClearHistoryKeepsDebounce ==
    /\ [][call'.op = "clearHistory" =>
            /\ m_drops' = <<>>
            /\ UNCHANGED <<m_thresholdPercent, m_callback, m_lastDrop>>]_vars
    /\ []((call.op = "update" /\ call.breach /\ ~call.fresh) =>
            /\ ~call.recorded
            /\ m_lastDrop = recordedAt)

\* C19 witness: a Drop was recorded, the history was cleared, and a breach that
\* arrived inside the debounce window of that Drop was suppressed.
C19_Witness ==
    /\ call.op = "update"
    /\ call.breach
    /\ ~call.fresh
    /\ ~call.recorded
    /\ recordedAt >= 0
    /\ m_drops = <<>>

\* The reorderings of a sample list.
OrderingsOf(samples) ==
    LET n == Len(samples)
        bijections == {f \in [1..n -> 1..n] : \A i, j \in 1..n : i # j => f[i] # f[j]}
    IN  {[i \in 1..n |-> samples[f[i]]] : f \in bijections}

IsAscending(samples) ==
    \A i \in 1..(Len(samples) - 1) : RLe(samples[i], samples[i + 1])

\* The samples in ascending order (a long list is only ever given in descending order).
Ascending(samples) ==
    IF Len(samples) <= 4
    THEN CHOOSE sorted \in OrderingsOf(samples) : IsAscending(sorted)
    ELSE [i \in 1..Len(samples) |-> samples[Len(samples) + 1 - i]]

\* The percentile as the specification words it, on an ascending list, with
\* positions counted from 0.
InterpolatedPercentile(sorted, p) ==
    LET n == Len(sorted)
        idx == RMul(p, R(n - 1))
        clamp(k) == IF k < 0 THEN 0 ELSE IF k > n - 1 THEN n - 1 ELSE k
        lo == clamp(RFloor(idx))
        hi == clamp(RCeil(idx))
        w == RSub(idx, R(lo))
    IN  IF n = 0 THEN Zero
        ELSE IF n = 1 THEN sorted[1]
        ELSE RAdd(RMul(sorted[lo + 1], RSub(R(1), w)), RMul(sorted[hi + 1], w))

\* C20: the two percentiles update() stores are, for the ascending-sorted samples
\* and p = 0.001 and 0.01: 0 for no sample, the sample for one, otherwise
\* sorted[lo] * (1 - (idx - lo)) + sorted[hi] * (idx - lo) with idx = p * (n - 1),
\* lo = floor(idx), hi = ceil(idx) clamped to [0, n - 1], which is sorted[lo]
\* when lo = hi; and every reordering of the samples gives the same statistics.
C20_PercentileInterpolates ==
    (call.op = "update" /\ call.recomputed) =>
        LET sorted == Ascending(call.samples)
            n == Len(sorted)
            idx1 == RMul(Rat(1, 100), R(n - 1))
        IN  /\ IsAscending(sorted)
            /\ m_stats.percentile01 = InterpolatedPercentile(sorted, Rat(1, 1000))
            /\ m_stats.percentile1 = InterpolatedPercentile(sorted, Rat(1, 100))
            /\ n = 0 => (m_stats.percentile01 = Zero /\ m_stats.percentile1 = Zero)
            /\ n = 1 => (m_stats.percentile01 = sorted[1] /\ m_stats.percentile1 = sorted[1])
            /\ (n > 1 /\ RFloor(idx1) = RCeil(idx1)) =>
                  m_stats.percentile1 = sorted[RFloor(idx1) + 1]
            /\ n <= 4 => \A samples \in OrderingsOf(call.samples) :
                            CalculateStats(samples) = m_stats

\* C20 witness: three samples given out of order were interpolated: the 1 % low
\* lies 2 % of the way from the smallest sample, 30, to the next, 60.
C20_Witness ==
    /\ call.op = "update"
    /\ call.recomputed
    /\ call.samples = <<R(30), R(120), R(60)>>
    /\ m_stats.percentile1 = Rat(153, 5)
    /\ m_stats.percentile01 = Rat(1503, 50)

\* The case lo = hi: with 101 samples 0.01 * (n - 1) = 1 and the 1 % low is the
\* second smallest sample.
C20_WholeIndexReached ==
    /\ call.op = "update"
    /\ call.recomputed
    /\ Len(call.samples) = 101
    /\ m_stats.percentile1 = R(4)
    /\ m_stats.min = R(2)

\* C21: when update() recomputes, an empty sample list sets all five statistics
\* to zero, whatever they were before, and a list of exactly one sample s sets
\* average = min = max = percentile01 = percentile1 = s.
C21_EmptyAndSingleSample ==
    (call.op = "update" /\ call.recomputed) =>
        /\ call.samples = <<>> =>
              /\ m_stats.average = Zero /\ m_stats.min = Zero /\ m_stats.max = Zero
              /\ m_stats.percentile01 = Zero /\ m_stats.percentile1 = Zero
        /\ Len(call.samples) = 1 =>
              LET sample == call.samples[1]
              IN  /\ m_stats.average = sample /\ m_stats.min = sample /\ m_stats.max = sample
                  /\ m_stats.percentile01 = sample /\ m_stats.percentile1 = sample

\* C21 witness: statistics that were not zero were recomputed from an empty list.
C21_Witness ==
    /\ call.op = "update"
    /\ call.recomputed
    /\ call.samples = <<>>
    /\ ~call.wasZero
    /\ m_stats = ZeroStats

\* C22: reset() sets all five statistics to zero and restarts the throttle clock
\* at the time of the call; while nothing has been recomputed since reset() (or
\* since construction), an update() made less than updateInterval after it is a
\* no-op that leaves the statistics at zero, and an update() made at least
\* updateInterval after it recomputes.  (A step that leaves the clock alone and
\* ends with call.op = "reset" is a reset() call.)
C22_ResetRestartsThrottle ==
    /\ [][(call'.op = "reset" /\ now' = now) =>
            /\ m_stats' = ZeroStats
            /\ m_lastUpdate' = now
            /\ m_updateInterval' = m_updateInterval]_vars
    /\ []((call.op = "update" /\ call.afterReset) =>
            /\ call.recomputed <=> call.sinceRestart >= m_updateInterval * TicksPerMs
            /\ ~call.recomputed => m_stats = ZeroStats
            /\ call.recomputed => m_stats = CalculateStats(call.samples))

\* C22 witness: statistics had been recomputed, reset() was called, and an
\* update() with samples that came less than updateInterval after the reset, but
\* at least updateInterval after that recomputation, left the statistics at zero.
C22_Witness ==
    /\ call.op = "update"
    /\ call.afterReset
    /\ call.hadPrevious
    /\ ~call.recomputed
    /\ call.samples # <<>>
    /\ call.sinceRestart > 0
    /\ call.sincePrevious >= m_updateInterval * TicksPerMs
    /\ m_stats = ZeroStats

\* C23: reset() empties the sample buffer and sets getCurrentFPS() and
\* getAverageFPS() to 0, and after it the calculator is indistinguishable from a
\* newly constructed one: after any following update() calls its getSamples(),
\* getCurrentFPS() and getAverageFPS() equal those of a calculator constructed at
\* the time of the reset and given the same calls.
C23_ResetIsLikeNew ==
    /\ call.op = "reset" =>
          /\ GetSamples = <<>>
          /\ GetSampleCount = 0
          /\ m_currentFPS = Zero
          /\ m_averageFPS = Zero
    /\ GetSamples = GetAllOf(twin)
    /\ GetSampleCount = twin.size
    /\ m_currentFPS = twin.currentFPS
    /\ m_averageFPS = twin.averageFPS

\* C23 witness: a calculator whose buffer had wrapped was reset and updated again
\* fewer than N times, so its slots still hold a sample from before the reset
\* that the newly constructed one never saw.
C23_Witness ==
    /\ call.op = "update"
    /\ RLt(Zero, call.deltaTime)
    /\ GetSampleCount \in 1..(N - 1)
    /\ \A slot \in 0..(N - 1) : m_buffer[slot] # Zero
    /\ m_buffer # twin.buffer

\* C24 as claimed: in every iteration of the main loop the calls are made in the
\* order FpsCalculator::update, StatsTracker::update, DropDetector::update, and
\* what the tracker and the detector are given was produced from the elapsed
\* time measured in that same iteration: the calculator's update pushed a sample
\* for it.
C24_DataFromSameTick ==
    app.pc = "sleep" =>
        /\ app.order = <<"FpsCalculator::update", "FpsCalculator::getSamples",
                         "StatsTracker::update", "DropDetector::update">>
        /\ m_head # app.headBefore
        /\ app.statsArg # <<>>
        /\ app.dropArg[1] = RMin(RDiv(R(1), app.deltaTime), MAX_FPS)

\* C24 amended: in every iteration the calls are made in the order
\* FpsCalculator::update(deltaTime), StatsTracker::update(getSamples()),
\* DropDetector::update(getCurrentFPS(), getAverageFPS()); the tracker is given
\* the samples and the detector the rates as they stand after that iteration's
\* FpsCalculator::update; when the measured deltaTime is positive these hold the
\* rate min(1 / deltaTime, 1000) of that iteration as newest sample and current
\* rate, with the mean over the snapshot; when it is not positive the
\* calculator's update did nothing and they are what the iteration before left.
C24_PipelineOrder ==
    app.pc = "sleep" =>
        /\ app.order = <<"FpsCalculator::update", "FpsCalculator::getSamples",
                         "StatsTracker::update", "DropDetector::update">>
        /\ app.statsArg = GetSamples
        /\ app.dropArg = <<m_currentFPS, m_averageFPS>>
        /\ RLt(Zero, app.deltaTime) =>
              /\ m_head # app.headBefore
              /\ app.statsArg # <<>>
              /\ app.statsArg[Len(app.statsArg)] = RMin(RDiv(R(1), app.deltaTime), MAX_FPS)
              /\ app.dropArg[1] = RMin(RDiv(R(1), app.deltaTime), MAX_FPS)
              /\ app.dropArg[2] = Mean(app.statsArg)
        /\ ~RLt(Zero, app.deltaTime) => m_head = app.headBefore

\* C24 witness: an iteration with a positive measurement ended with the tracker
\* having recomputed from a snapshot of several samples and the detector having
\* recorded a Drop for the pair it was given.
C24_Witness ==
    /\ app.pc = "sleep"
    /\ RLt(Zero, app.deltaTime)
    /\ Len(app.statsArg) >= 2
    /\ m_stats # ZeroStats
    /\ m_drops # <<>>
    /\ m_drops[Len(m_drops)].currentFPS = app.dropArg[1]
    /\ m_drops[Len(m_drops)].timestamp = now

\* C25 as claimed: once the window exists and the toggle hotkey is registered,
\* every WM_HOTKEY message with the registered hotkey id that reaches the window
\* procedure flips isVisible(), also after setMessageCallback has installed the
\* application's tray-icon callback.
C25_HotkeyFlipsVisibility ==
    (/\ call.op = "handleMessage"
     /\ call.msg = "WM_HOTKEY"
     /\ call.wParam = HOTKEY_ID
     /\ call.hotkeyRegistered) => win.visible = ~call.wasVisible

\* An ascending list is uniformly increasing: each sample exceeds the one before
\* by the same positive amount.
IsProgression(sorted) ==
    /\ \A i \in 1..(Len(sorted) - 1) : RLt(sorted[i], sorted[i + 1])
    /\ \A i \in 1..(Len(sorted) - 2) :
          RSub(sorted[i + 1], sorted[i]) = RSub(sorted[i + 2], sorted[i + 1])

C27_ConsecutiveDropsDebounced ==
    \A i \in 1..(Len(m_drops) - 1) :
        RLe(DEBOUNCE_SECONDS,
            SecondsBetween(m_drops[i].timestamp, m_drops[i + 1].timestamp))

\* C27 witness: with the re-entrant callback registered, an update() recorded a
\* second event exactly DEBOUNCE_SECONDS after the first and invoked the callback,
\* whose nested update() added nothing.
C27_Witness ==
    /\ call.op = "update"
    /\ call.recorded
    /\ m_callback = "reenter"
    /\ Len(invoked) = 1
    /\ Len(m_drops) = 2
    /\ m_drops[2].timestamp = now
    /\ SecondsBetween(m_drops[1].timestamp, m_drops[2].timestamp) = DEBOUNCE_SECONDS

\* C29: an update() whose breach is suppressed by debouncing changes nothing of
\* the detector and invokes no callback, and a breaching update() made at least
\* DEBOUNCE_SECONDS after the last recorded event records an event, however many
\* suppressed breaches came in between.
C29_SuppressedBreachLeavesNoTrace ==
    [][(call'.op = "update" /\ now' = now /\ call'.breach) =>
          /\ ~call'.recorded => (UNCHANGED dropVars /\ invoked' = <<>>)
          /\ (/\ recordedAt # -1
              /\ RLe(DEBOUNCE_SECONDS, SecondsBetween(recordedAt, now))) =>
                 (/\ call'.recorded
                  /\ m_drops' # <<>>
                  /\ m_drops'[Len(m_drops')].timestamp = now
                  /\ m_lastDrop' = now)]_vars

\* C29 witness: an event, a suppressed breach 0.25 s later, and a breach recorded
\* 0.5 s after the event, that is 0.25 s after the suppressed one.
C29_Witness ==
    /\ call.op = "update"
    /\ call.recorded
    /\ call.paired
    /\ call.pairRecorded = 1
    /\ Len(m_drops) = 2
    /\ m_drops[2].timestamp = now
    /\ SecondsBetween(m_drops[1].timestamp, now) = DEBOUNCE_SECONDS

\* C30: in every reachable state of a StatsTracker,
\* min <= percentile01 <= percentile1 <= max and min <= average <= max.
C30_StatisticsOrdered ==
    /\ RLe(m_stats.min, m_stats.percentile01)
    /\ RLe(m_stats.percentile01, m_stats.percentile1)
    /\ RLe(m_stats.percentile1, m_stats.max)
    /\ RLe(m_stats.min, m_stats.average)
    /\ RLe(m_stats.average, m_stats.max)

\* C28: initialize() on a logger that is not initialized, with a log file that
\* opens, returns true with the logger initialized, and no thread ever waits
\* for the logger's mutex while holding it.
C28_InitializeReturnsTrue ==
    /\ \A t \in LogThreads : logger.pc[t] # "log_waits_for_itself"
    /\ (call.op = "initialize" /\ ~call.wasInitialized /\ call.opened) =>
           (call.ret = "true" /\ call.initialized)

====
